---- MODULE Spec2Model ----
(***************************************************************************)
(* Citation-aware search index of research-mcp: the document store         *)
(* (SearchDatabase), the archive scanner, the content processor, the       *)
(* citation graph and the indexing orchestrator (IndexingTrigger).         *)
(*                                                                         *)
(* Spec          : indexing runs over a changing archive (runIndexing and   *)
(*                 the code it calls), the host starting runs at will.     *)
(* SpecStore     : a client driving the public SearchDatabase,             *)
(*                 CitationGraph and SearchAPI methods on one store.       *)
(* SpecVisualize : the same client asking for citation visualizations.     *)
(* SpecBuild     : the same client calling buildFromArchives standalone.   *)
(* SpecSearch    : SearchAPI.search over a two-document corpus.            *)
(* SpecCitations : the extraction functions of the CitationGraph.          *)
(* SpecIds       : the ids the scanner gives to files.                     *)
(* SpecProcess   : one ContentProcessor.processDocuments call.             *)
(* SpecWatch     : the file watchers and their debounce timer.             *)
(* SpecTriggers  : setupTriggers, stopTriggers, the cron job, the watchers *)
(*                 and the runs they start.                                *)
(* SpecRateLimit : concurrent checkRateLimit calls of captureUrlContent.   *)
(***************************************************************************)
EXTENDS Integers, Sequences, FiniteSets, TLC

\* ----------------------------------------------------------------- bounds
\* Wall-clock values the model distinguishes (Date.now(), file mtimes).
MaxClock == 2
\* Indexing runs the host starts in one behaviour.
MaxStarts == 2
\* Changes other processes make to the archive in one behaviour.
MaxChanges == 1
\* Store API calls a client issues in one behaviour of SpecStore.
MaxCalls == 5

\* Run slots: runIndexing invocations that can be in flight together.
Runs == {"runA", "runB"}

\* ------------------------------------------------------- archive contents
\* The markdown files of the two archive trees.
Files == {"r1", "u1"}

SourceOf(f) == IF f = "u1" THEN "url-content" ELSE "research"

\* Content versions a file can hold.
Versions == {1, 2}

NoUrl == [scheme |-> "", body |-> "", slash |-> FALSE, upper |-> FALSE]
UrlA == [scheme |-> "https", body |-> "x.com/a", slash |-> FALSE, upper |-> FALSE]
UrlASlash == [scheme |-> "http", body |-> "x.com/a", slash |-> TRUE, upper |-> TRUE]
UrlB == [scheme |-> "https", body |-> "y.org/b", slash |-> FALSE, upper |-> FALSE]

\* The pieces of a text that matter to link extraction, in order of
\* occurrence: a markdown link [text](url), a URL written outside link syntax,
\* any other word.
Link(url) == [kind |-> "link", url |-> url]
Bare(url) == [kind |-> "bare", url |-> url]
Word == [kind |-> "word", url |-> NoUrl]

\* The text of a file: its pieces in order of occurrence, the
\* "# Source: [title](url)" header of a captured page, whether it carries the
\* "# Research Report" marker, and its blank-line separated paragraphs, each
\* with its word set and its length in characters.
RawText(f, v) ==
  CASE f = "r1" /\ v = 1 ->
         [tokens |-> <<Link(UrlA), Word>>, header |-> NoUrl, report |-> TRUE,
          paras |-> <<[words |-> {"w1", "w2", "w3"}, len |-> 120]>>]
    [] f = "r1" /\ v = 2 ->
         [tokens |-> <<Link(UrlA), Word, Link(UrlB)>>, header |-> NoUrl, report |-> TRUE,
          paras |-> <<[words |-> {"w1", "w2"}, len |-> 60],
                      [words |-> {"w3", "w4"}, len |-> 60]>>]
    [] f = "r2" /\ v = 1 ->
         [tokens |-> <<Link(UrlB)>>, header |-> NoUrl, report |-> FALSE,
          paras |-> <<[words |-> {"w1"}, len |-> 60]>>]
    [] f = "u1" /\ v = 1 ->
         [tokens |-> <<Word>>, header |-> UrlASlash, report |-> FALSE,
          paras |-> <<[words |-> {"w1", "w2", "w3"}, len |-> 120]>>]
    [] OTHER ->
         [tokens |-> <<Word>>, header |-> NoUrl, report |-> FALSE,
          paras |-> <<[words |-> {"w4"}, len |-> 60]>>]

\* Paragraph length below which detectImplicitCitations skips a paragraph.
MinParagraphLen == 100

RECURSIVE UnionWords(_)
UnionWords(ps) ==
  IF ps = <<>> THEN {} ELSE Head(ps).words \cup UnionWords(Tail(ps))

RECURSIVE SumLen(_)
SumLen(ps) == IF ps = <<>> THEN 0 ELSE Head(ps).len + SumLen(Tail(ps))

\* ContentProcessor.normalizeContent: every run of whitespace becomes one
\* space, so the blank lines between paragraphs disappear and the text is one
\* paragraph holding all the words (the separators counted in its length).
normalizeContent(t) ==
  [t EXCEPT !.paras =
     IF t.paras = <<>> THEN <<>>
     ELSE <<[words |-> UnionWords(t.paras),
             len |-> SumLen(t.paras) + (Len(t.paras) - 1)]>>]

\* The text a stored content value stands for: content is kept in the state
\* as [f, v, norm] and expanded here; f = "raw" marks a content value that
\* carries its text in v.
RawContent(t) == [f |-> "raw", v |-> t, norm |-> FALSE]

Text(c) ==
  LET t == IF c.f = "raw" THEN c.v ELSE RawText(c.f, c.v)
  IN IF c.norm THEN normalizeContent(t) ELSE t

\* ArchiveScanner.generateDocumentId: a hash of source and file path.
generateDocumentId(f, source) == <<source, f>>

\* Documents a store client can hold: those of the archive files and one
\* more research document.
DocFiles == Files \cup {"r2"}

DocIds == {generateDocumentId(f, SourceOf(f)) : f \in DocFiles}

\* ArchiveScanner.determineResearchDocumentType.
determineResearchDocumentType(t) == IF t.report THEN "report" ELSE "unknown"

\* ArchiveScanner.scanResearchArchive / scanUrlContentArchive: the Document
\* built from one retained file.
ScannedDocument(f, v) ==
  LET t == RawText(f, v) IN
  [id |-> generateDocumentId(f, SourceOf(f)),
   source |-> SourceOf(f),
   type |-> IF SourceOf(f) = "research"
            THEN determineResearchDocumentType(t) ELSE "webpage",
   originalUrl |-> IF SourceOf(f) = "url-content" THEN t.header ELSE NoUrl,
   content |-> [f |-> f, v |-> v, norm |-> FALSE]]

\* ContentProcessor.processDocument: the content is normalized; a captured
\* page without a recorded original URL takes it from its header line.
processDocument(d) ==
  LET c == [d.content EXCEPT !.norm = TRUE] IN
  [d EXCEPT !.content = c,
            !.originalUrl =
               IF d.source = "url-content" /\ d.originalUrl = NoUrl
               THEN Text(c).header ELSE d.originalUrl]

\* ContentProcessor.processDocuments: one output per input.
processDocuments(ds) == {processDocument(d) : d \in ds}

\* ------------------------------------------------------------ the store
\* SQL NULL in citations.target_id.
NoDoc == <<"none", "none">>

\* The four tables SearchDatabase.setupSchema creates.
EmptyDb ==
  [documents |-> {}, document_content |-> {},
   citations |-> {}, citation_content |-> {}]

\* An addDocument that writes the full-text row first: when the metadata row
\* is refused, the full-text row is already there.
addDocumentContentFirst(d, doc) ==
  LET withContent ==
        [d EXCEPT !.document_content = @ \cup {[id |-> doc.id,
                                                content |-> doc.content]}]
  IN IF \E r \in d.documents : r.id = doc.id
     THEN [ok |-> FALSE, db |-> withContent]
     ELSE [ok |-> TRUE,
           db |-> [withContent EXCEPT
             !.documents = @ \cup {[id |-> doc.id, source |-> doc.source,
                                    type |-> doc.type,
                                    originalUrl |-> doc.originalUrl]}]]

\* SearchDatabase.addDocument: a row in documents (id is its primary key: a
\* second row with the same id is refused and the call throws before the
\* full-text row is written), then a row in document_content.
addDocument(d, doc) ==
  IF \E r \in d.documents : r.id = doc.id
  THEN [ok |-> FALSE, db |-> d]
  ELSE [ok |-> TRUE,
        db |-> [d EXCEPT
          !.documents = @ \cup {[id |-> doc.id, source |-> doc.source,
                                 type |-> doc.type,
                                 originalUrl |-> doc.originalUrl]},
          !.document_content = @ \cup {[id |-> doc.id,
                                        content |-> doc.content]}]]

\* The rows of SELECT ... FROM documents d JOIN document_content dc
\* ON d.id = dc.id, as Documents.
JoinDocuments(d) ==
  {[id |-> r.id, source |-> r.source, type |-> r.type,
    originalUrl |-> r.originalUrl, content |-> c.content] :
     <<r, c>> \in {p \in d.documents \X d.document_content : p[1].id = p[2].id}}

\* SearchDatabase.listDocuments.
listDocuments(d) == JoinDocuments(d)

\* SearchDatabase.getDocument: the joined rows with this id (none: null).
getDocument(d, id) == {x \in JoinDocuments(d) : x.id = id}

\* SearchDatabase.updateDocument: UPDATE of both tables WHERE id = ?.
updateDocument(d, doc) ==
  [d EXCEPT
    !.documents = {IF r.id = doc.id
                   THEN [id |-> doc.id, source |-> doc.source,
                         type |-> doc.type, originalUrl |-> doc.originalUrl]
                   ELSE r : r \in @},
    !.document_content = {IF c.id = doc.id
                          THEN [id |-> doc.id, content |-> doc.content]
                          ELSE c : c \in @}]

\* The FOREIGN KEY clauses of the citations table: source_id, and target_id
\* unless NULL, name a row of documents.
References(d, id) ==
  \E c \in d.citations : c.sourceId = id \/ c.targetId = id

\* A DELETE that no foreign key holds back.
deleteDocumentUnchecked(d, id) ==
  [ok |-> TRUE,
   db |-> [d EXCEPT !.documents = {r \in @ : r.id # id},
                    !.document_content = {c \in @ : c.id # id}]]

\* SearchDatabase.deleteDocument: DELETE from both tables WHERE id = ?; the
\* first DELETE is refused, and the call throws, while a citation references
\* the document.
deleteDocument(d, id) ==
  IF References(d, id)
  THEN [ok |-> FALSE, db |-> d]
  ELSE [ok |-> TRUE,
        db |-> [d EXCEPT !.documents = {r \in @ : r.id # id},
                         !.document_content = {c \in @ : c.id # id}]]

\* The id addCitation gives a citation without one: 'cit-' + Date.now() + '-'
\* + a random number below 1000.  Ids are opaque, so a non-colliding draw is
\* represented by the least unused number; a colliding draw is the collide
\* case of addCitation.
FreshCitationId(d) ==
  IF d.citations = {} THEN 1
  ELSE 1 + CHOOSE m \in {r.id : r \in d.citations} :
             \A r \in d.citations : r.id <= m

\* SearchDatabase.addCitation.  collide: the generated id equals the id of a
\* stored citation and the INSERT violates the primary key; an INSERT naming
\* a missing document violates a foreign key.  Either way the call throws
\* with nothing written.
addCitation(d, cit, collide) ==
  IF \/ collide /\ d.citations # {}
     \/ cit.sourceId \notin {r.id : r \in d.documents}
     \/ cit.targetId \notin {r.id : r \in d.documents} \cup {NoDoc}
  THEN [ok |-> FALSE, db |-> d, id |-> 0]
  ELSE LET id == FreshCitationId(d) IN
       [ok |-> TRUE, id |-> id,
        db |-> [d EXCEPT
          !.citations = @ \cup {[id |-> id, sourceId |-> cit.sourceId,
                                 targetUrl |-> cit.targetUrl,
                                 targetId |-> cit.targetId,
                                 confidence |-> cit.confidence]},
          !.citation_content = @ \cup {[id |-> id,
                                        context |-> cit.context]}]]

\* A lookup with the two directions exchanged: 'citing' selects on source_id.
getCitationsForDocumentSwapped(d, documentId, direction) ==
  LET joined ==
        {[id |-> r.id, sourceId |-> r.sourceId, targetUrl |-> r.targetUrl,
          targetId |-> r.targetId, context |-> c.context,
          confidence |-> r.confidence] :
           <<r, c>> \in {p \in d.citations \X d.citation_content :
                           p[1].id = p[2].id}}
  IN IF direction = "citing"
     THEN {x \in joined : x.sourceId = documentId}
     ELSE {x \in joined : x.targetId = documentId}

\* SearchDatabase.getCitationsForDocument: citations joined with their
\* full-text row; 'citing' selects on target_id, anything else on source_id.
getCitationsForDocument(d, documentId, direction) ==
  LET joined ==
        {[id |-> r.id, sourceId |-> r.sourceId, targetUrl |-> r.targetUrl,
          targetId |-> r.targetId, context |-> c.context,
          confidence |-> r.confidence] :
           <<r, c>> \in {p \in d.citations \X d.citation_content :
                           p[1].id = p[2].id}}
  IN IF direction = "citing"
     THEN {x \in joined : x.targetId = documentId}
     ELSE {x \in joined : x.sourceId = documentId}

\* SearchDatabase.getStats.
getStats(d) ==
  [documentCount |-> Cardinality(d.documents),
   citationCount |-> Cardinality(d.citations)]

\* A store handle: the tables as this connection sees them, whether a
\* transaction is open on it, and the tables as they were at its BEGIN (what a
\* ROLLBACK restores, and what is committed while the transaction is open).
NewHandle == [db |-> EmptyDb, open |-> FALSE, snap |-> EmptyDb]

\* A begin that a store accepting nested BEGINs would perform: it succeeds and
\* restarts the transaction from the current content.
beginTransactionReentrant(h) ==
  [ok |-> TRUE, h |-> [h EXCEPT !.open = TRUE, !.snap = h.db]]

\* SearchDatabase.beginTransaction: exec('BEGIN TRANSACTION').  SQLite refuses
\* a BEGIN inside a transaction ("cannot start a transaction within a
\* transaction") and leaves the open transaction as it is.
beginTransaction(h) ==
  IF h.open
  THEN [ok |-> FALSE, h |-> h]
  ELSE [ok |-> TRUE, h |-> [h EXCEPT !.open = TRUE, !.snap = h.db]]

\* SearchDatabase.commitTransaction: exec('COMMIT'); an error when no
\* transaction is active.
commitTransaction(h) ==
  IF ~h.open
  THEN [ok |-> FALSE, h |-> h]
  ELSE [ok |-> TRUE, h |-> [h EXCEPT !.open = FALSE, !.snap = EmptyDb]]

\* SearchDatabase.rollbackTransaction: exec('ROLLBACK'); an error when no
\* transaction is active.
rollbackTransaction(h) ==
  IF ~h.open
  THEN [ok |-> FALSE, h |-> h]
  ELSE [ok |-> TRUE,
        h |-> [h EXCEPT !.db = h.snap, !.open = FALSE, !.snap = EmptyDb]]

\* What a reader on another connection sees: the committed tables.
Committed(h) == IF h.open THEN h.snap ELSE h.db

\* ------------------------------------------------------ the citation graph
\* The order in which rows come back from the store.
DocOrder ==
  <<generateDocumentId("r1", "research"), generateDocumentId("r2", "research"),
    generateDocumentId("u1", "url-content"),
    generateDocumentId("u2", "url-content")>>

RECURSIVE InOrder(_, _)
InOrder(ids, docs) ==
  IF ids = <<>> THEN <<>>
  ELSE LET here == {x \in docs : x.id = Head(ids)} IN
       (IF here = {} THEN <<>> ELSE <<CHOOSE x \in here : TRUE>>)
         \o InOrder(Tail(ids), docs)

One == <<1, 1>>

\* The matches of /\[([^\]]+)\]\(([^)]+)\)/g in a text, in order: the urls
\* of its markdown links.
MarkdownLinks(t) ==
  LET found == SelectSeq(t.tokens, LAMBDA x : x.kind = "link")
  IN [i \in 1..Len(found) |-> found[i].url]

\* An extraction that stops after the first link.
extractExplicitCitationsFirstOnly(document) ==
  LET links == MarkdownLinks(Text(document.content)) IN
  [i \in 1..(IF Len(links) > 1 THEN 1 ELSE Len(links)) |->
     [sourceId |-> document.id, targetUrl |-> links[i], targetId |-> NoDoc,
      context |-> <<"link", i>>, confidence |-> One]]

\* CitationGraph.extractExplicitCitations: one citation per markdown link,
\* confidence 1.0, no target document; none for a document without content.
extractExplicitCitations(document) ==
  LET links == MarkdownLinks(Text(document.content)) IN
  [i \in 1..Len(links) |->
     [sourceId |-> document.id, targetUrl |-> links[i], targetId |-> NoDoc,
      context |-> <<"link", i>>, confidence |-> One]]

\* CitationGraph.normalizeUrl: the leading http:// or https:// removed, then
\* one trailing slash, then lower case.
normalizeUrl(url) ==
  [scheme |-> IF url.scheme \in {"http", "https"} THEN ""
              ELSE IF url.scheme = "HTTP" THEN "http" ELSE url.scheme,
   body |-> url.body, slash |-> FALSE, upper |-> FALSE]

\* A matching that returns only the citations it resolved to a document.
matchUrlReferencesResolvedOnly(document, urlContentDocuments) ==
  LET explicit == extractExplicitCitations(document)
      cands == InOrder(DocOrder, urlContentDocuments)
      Match(c) == SelectSeq(cands,
                    LAMBDA x : normalizeUrl(x.originalUrl)
                                 = normalizeUrl(c.targetUrl))
      resolved == SelectSeq(explicit, LAMBDA c : Match(c) # <<>>)
  IN [i \in 1..Len(resolved) |->
        [resolved[i] EXCEPT !.targetId = Head(Match(resolved[i])).id]]

\* CitationGraph.matchUrlReferences: the explicit citations again, each with
\* targetId set to the first url-content document whose recorded original URL
\* normalizes to the same string.
matchUrlReferences(document, urlContentDocuments) ==
  LET explicit == extractExplicitCitations(document)
      cands == InOrder(DocOrder, urlContentDocuments)
      Match(c) == SelectSeq(cands,
                    LAMBDA x : normalizeUrl(x.originalUrl)
                                 = normalizeUrl(c.targetUrl))
  IN [i \in 1..Len(explicit) |->
        IF Match(explicit[i]) = <<>> THEN explicit[i]
        ELSE [explicit[i] EXCEPT !.targetId = Head(Match(explicit[i])).id]]

\* CitationGraph.extractParagraphs: the blank-line separated, non-blank parts.
extractParagraphs(t) == t.paras

\* CitationGraph.calculateTextSimilarity: Jaccard similarity of the two word
\* sets, as the fraction <<|intersection|, |union|>>.  A text without words
\* splits into the one empty word.
calculateTextSimilarity(words1, words2) ==
  LET a == IF words1 = {} THEN {""} ELSE words1
      b == IF words2 = {} THEN {""} ELSE words2
  IN <<Cardinality(a \cap b), Cardinality(a \cup b)>>

\* similarity > 0.7
AboveThreshold(sim) == 10 * sim[1] > 7 * sim[2]

RECURSIVE Flatten(_)
Flatten(ss) == IF ss = <<>> THEN <<>> ELSE Head(ss) \o Flatten(Tail(ss))

\* CitationGraph.detectImplicitCitations: for a research report, every
\* paragraph of at least 100 characters against the whole content of every
\* other document.
detectImplicitCitations(document, allDocuments) ==
  IF Text(document.content).paras = <<>> \/ document.source # "research"
     \/ document.type # "report"
  THEN <<>>
  ELSE LET paragraphs == extractParagraphs(Text(document.content))
           others == InOrder(DocOrder, allDocuments)
           Of(j, other) ==
             LET sim == calculateTextSimilarity(
                          paragraphs[j].words,
                          UnionWords(Text(other.content).paras))
             IN IF other.id # document.id
                   /\ Text(other.content).paras # <<>>
                   /\ AboveThreshold(sim)
                THEN <<[sourceId |-> document.id, targetId |-> other.id,
                        targetUrl |-> other.originalUrl,
                        context |-> <<"para", j>>, confidence |-> sim]>>
                ELSE <<>>
           OfPara(j) ==
             IF paragraphs[j].len < MinParagraphLen THEN <<>>
             ELSE Flatten([k \in 1..Len(others) |-> Of(j, others[k])])
       IN Flatten([j \in 1..Len(paragraphs) |-> OfPara(j)])

\* The citations one buildFromArchives pass stores, in the order it stores
\* them: per research document the explicit ones, the url-matched ones, the
\* implicit ones.
CitationsToStore(d) ==
  LET allDocuments == listDocuments(d)
      researchDocuments ==
        InOrder(DocOrder, {x \in allDocuments : x.source = "research"})
      urlContentDocuments == {x \in allDocuments : x.source = "url-content"}
  IN Flatten([i \in 1..Len(researchDocuments) |->
       extractExplicitCitations(researchDocuments[i])
         \o matchUrlReferences(researchDocuments[i], urlContentDocuments)
         \o detectImplicitCitations(researchDocuments[i], allDocuments)])

\* The loop "for (const citation of documentCitations) addCitation(citation)":
\* citation number collideAt draws a colliding id (0: none does).
RECURSIVE StoreCitations(_, _, _, _)
StoreCitations(d, cits, i, collideAt) ==
  IF i > Len(cits) THEN [ok |-> TRUE, db |-> d]
  ELSE LET r == addCitation(d, cits[i], i = collideAt) IN
       IF r.ok THEN StoreCitations(r.db, cits, i + 1, collideAt)
       ELSE [ok |-> FALSE, db |-> r.db]

\* A build whose beginTransaction sits inside the try block: a refused begin
\* reaches the catch, which rolls back the transaction that is open.
buildFromArchivesBeginInTry(h, manageTransaction, collideAt) ==
  LET cits == CitationsToStore(h.db)
      begun == IF manageTransaction THEN beginTransaction(h)
               ELSE [ok |-> TRUE, h |-> h]
      stored == StoreCitations(begun.h.db, cits, 1, collideAt)
      h1 == [begun.h EXCEPT !.db = stored.db]
  IN IF ~begun.ok
     THEN [ok |-> FALSE, h |-> rollbackTransaction(h).h, citations |-> <<>>,
           calls |-> <<[op |-> "begin", ok |-> FALSE],
                       [op |-> "rollback", ok |-> TRUE]>>]
     ELSE IF stored.ok
     THEN [ok |-> TRUE,
           h |-> IF manageTransaction THEN commitTransaction(h1).h ELSE h1,
           citations |-> cits,
           calls |-> IF manageTransaction
                     THEN <<[op |-> "begin", ok |-> TRUE],
                            [op |-> "commit", ok |-> TRUE]>>
                     ELSE <<>>]
     ELSE [ok |-> FALSE,
           h |-> IF manageTransaction THEN rollbackTransaction(h1).h ELSE h1,
           citations |-> <<>>,
           calls |-> IF manageTransaction
                     THEN <<[op |-> "begin", ok |-> TRUE],
                            [op |-> "rollback", ok |-> TRUE]>>
                     ELSE <<>>]

\* CitationGraph.buildFromArchives on handle h.  The result carries the handle
\* afterwards, whether the call returned (ok) or threw, the citations it
\* returns and the transaction calls it issued.
buildFromArchives(h, manageTransaction, collideAt) ==
  LET cits == CitationsToStore(h.db)
      begun == IF manageTransaction THEN beginTransaction(h)
               ELSE [ok |-> TRUE, h |-> h]
  IN IF ~begun.ok
     THEN [ok |-> FALSE, h |-> h, citations |-> <<>>,
           calls |-> <<[op |-> "begin", ok |-> FALSE]>>]
     ELSE
       LET stored == StoreCitations(begun.h.db, cits, 1, collideAt)
           h1 == [begun.h EXCEPT !.db = stored.db]
       IN IF stored.ok
          THEN [ok |-> TRUE,
                h |-> IF manageTransaction THEN commitTransaction(h1).h ELSE h1,
                citations |-> cits,
                calls |-> IF manageTransaction
                          THEN <<[op |-> "begin", ok |-> TRUE],
                                 [op |-> "commit", ok |-> TRUE]>>
                          ELSE <<>>]
          ELSE [ok |-> FALSE,
                h |-> IF manageTransaction THEN rollbackTransaction(h1).h
                      ELSE h1,
                citations |-> <<>>,
                calls |-> IF manageTransaction
                          THEN <<[op |-> "begin", ok |-> TRUE],
                                 [op |-> "rollback", ok |-> TRUE]>>
                          ELSE <<>>]

\* CitationGraph.findCitations / findReferences.
findCitations(d, documentId) == getCitationsForDocument(d, documentId, "citing")

findReferences(d, documentId) == getCitationsForDocument(d, documentId, "cited")

RECURSIVE SetToSeq(_)
SetToSeq(S) ==
  IF S = {} THEN <<>>
  ELSE LET x == CHOOSE y \in S : TRUE IN <<x>> \o SetToSeq(S \ {x})

\* The "while (queue.length > 0)" loop of findRelatedDocuments.
RECURSIVE Traverse(_, _, _, _, _)
Traverse(d, queue, visited, related, depth) ==
  IF queue = <<>> THEN related
  ELSE
    LET id == Head(queue).id
        currentDepth == Head(queue).currentDepth
    IN IF currentDepth >= depth
       THEN Traverse(d, Tail(queue), visited, related, depth)
       ELSE
         LET citing == findCitations(d, id)
             cited == findReferences(d, id)
             fromCiting == {c.targetId : c \in {x \in citing :
                              x.targetId # NoDoc /\ x.targetId \notin visited}}
             visited1 == visited \cup fromCiting
             fromCited == {c.sourceId : c \in {x \in cited :
                              x.sourceId \notin visited1}}
             new == SetToSeq(fromCiting) \o SetToSeq(fromCited)
         IN Traverse(d,
              Tail(queue) \o [i \in 1..Len(new) |->
                                [id |-> new[i], currentDepth |-> currentDepth + 1]],
              visited1 \cup fromCited,
              related \cup fromCiting \cup fromCited,
              depth)

\* CitationGraph.findRelatedDocuments.
findRelatedDocuments(d, documentId, depth) ==
  Traverse(d, <<[id |-> documentId, currentDepth |-> 0]>>,
           {documentId}, {}, depth) \ {documentId}

\* ------------------------------------------------------------------ state
VARIABLES
  fs,         \* the archive on disk: per file, whether it exists, its
              \* modification time and its content version
  clock,      \* the wall clock
  persisted,  \* lastScanTime in indexing-state.json (0: no state file)
  store,      \* the IndexingTrigger's store handle
  run,        \* per run slot: where that runIndexing invocation stands
  started,    \* runs started so far
  changes,    \* archive changes made so far
  txlog,      \* the transaction calls of the latest run, with their issuer
  calls,      \* store API calls issued so far (SpecStore)
  answer,     \* what the last query of the client returned (SpecStore)
  trig,       \* the triggers of the IndexingTrigger: time, the registered
              \* jobs and watchers, pending timers, the debounce handle,
              \* the runs the triggers started (SpecWatch, SpecTriggers)
  proc,       \* a processDocuments call: its input, the documents whose
              \* processing has started and completed, its results
              \* (SpecProcess)
  rate        \* the rate limiter of captureUrlContent: time, the request
              \* timestamps per domain, the checkRateLimit calls waiting
              \* (SpecRateLimit)

vars == <<fs, clock, persisted, store, run, started, changes, txlog, calls,
          answer, trig, proc, rate>>

\* The domains of the URLs captured, and the captureUrlContent calls that
\* can be in flight together.
Domains == {"x.com", "y.org"}
Callers == {"c1", "c2", "c3"}

\* No request made yet; Date.now() is positive.
IdleRate ==
  [now |-> 1,
   domainRequestTimestamps |-> [d \in Domains |-> <<>>],
   waiting |-> [c \in Callers |-> [domain |-> "", wake |-> 0]],
   made |-> 0,
   last |-> [domain |-> "", outcome |-> "none", inWindow |-> 0, kept |-> 0]]

\* No processDocuments call made yet.
IdleProc ==
  [pc |-> "idle", documents |-> <<>>, throws |-> {}, i |-> 0,
   started |-> {}, completed |-> {}, batchResults |-> <<>>,
   results |-> <<>>]

\* Who calls runIndexing: the cron job's callback, the debounce timer's
\* callback, the host through SearchIndex.runIndexing.
Invokers == {"cron", "watch", "manual"}

\* No call made, no run ended yet.
NoCall == [op |-> "none", schedule |-> "none", watched |-> {}, threw |-> FALSE]
NoReport == [by |-> "none", ok |-> TRUE, how |-> "none"]

\* The trigger state after the constructor: jobs = [], watchers = [],
\* watchDebounceTimer = null (0).
IdleTrig ==
  [now |-> 0, jobs |-> <<>>, watchers |-> {}, timers |-> {},
   watchDebounceTimer |-> 0, nextId |-> 1,
   events |-> 0, lastEvent |-> -1, lastDir |-> "", burstRuns |-> 0,
   runsTriggered |-> 0, ended |-> 0, inflight |-> [by \in Invokers |-> 0],
   lastReport |-> NoReport, failed |-> FALSE,
   startedAfterFailure |-> FALSE,
   ops |-> 0, lastCall |-> NoCall, stopped |-> FALSE,
   startedAfterStop |-> FALSE]

IdleRun ==
  [pc |-> "idle", force |-> FALSE, state |-> 0, listedAt |-> -1, todo |-> {},
   firstExamined |-> 0, documents |-> {}, scanTime |-> 0, pending |-> {},
   failedIn |-> "", beforeDb |-> EmptyDb, beforePersisted |-> 0]

NoAnswer == [op |-> "none"]

Init ==
  /\ fs = [f \in Files |->
             IF f = "u1" THEN [exists |-> FALSE, mtime |-> 0, v |-> 1]
             ELSE [exists |-> TRUE, mtime |-> 0, v |-> 1]]
  /\ clock = 1
  /\ persisted = 0
  /\ store = NewHandle
  /\ run = [r \in Runs |-> IdleRun]
  /\ started = 0
  /\ changes = 0
  /\ txlog = <<>>
  /\ calls = 0
  /\ answer = NoAnswer
  /\ trig = IdleTrig
  /\ proc = IdleProc
  /\ rate = IdleRate

\* Between beginTransaction and the call of saveState runIndexing does not
\* await: nothing else runs on the event loop while a run is in that stretch.
InSync == \E r \in Runs : run[r].pc \in {"write", "build", "commit", "rollback"}

\* ------------------------------------------------------- the environment
Tick ==
  /\ ~InSync
  /\ clock < MaxClock
  /\ clock' = clock + 1
  /\ UNCHANGED <<fs, persisted, store, run, started, changes, txlog, calls, answer, trig, proc, rate>>

\* Some process writes file f (creating it if need be): new content version,
\* modification time now.
WriteFile(f, v) ==
  /\ ~InSync
  /\ (f # "r1") => (v = 1)
  /\ fs[f] # [exists |-> TRUE, mtime |-> clock, v |-> v]
  /\ changes < MaxChanges
  /\ changes' = changes + 1
  /\ fs' = [fs EXCEPT ![f] = [exists |-> TRUE, mtime |-> clock, v |-> v]]
  /\ UNCHANGED <<clock, persisted, store, run, started, txlog, calls, answer, trig, proc, rate>>

DeleteFile(f) ==
  /\ ~InSync
  /\ fs[f].exists
  /\ changes < MaxChanges
  /\ changes' = changes + 1
  /\ fs' = [fs EXCEPT ![f] = [exists |-> FALSE, mtime |-> 0, v |-> 1]]
  /\ UNCHANGED <<clock, persisted, store, run, started, txlog, calls, answer, trig, proc, rate>>

\* ----------------------------------------------- IndexingTrigger.runIndexing
\* A run is asked for (startServer's initial run, the cron job's callback, the
\* debounce timer's callback): runIndexing is entered, whatever other run is
\* in flight, and runs up to its first await.  The free slots are
\* interchangeable; the first one is taken.
StartRun(r, force) ==
  /\ ~InSync
  /\ run[r].pc = "idle"
  /\ r = "runA" \/ run["runA"].pc # "idle"
  /\ started < MaxStarts
  /\ started' = started + 1
  /\ run' = [run EXCEPT ![r] =
       [IdleRun EXCEPT !.pc = "load", !.force = force,
                       !.beforeDb = Committed(store),
                       !.beforePersisted = persisted]]
  /\ UNCHANGED <<fs, clock, persisted, store, changes, txlog, calls, answer, trig, proc, rate>>

\* loadState: the content of the state file, {} when there is none.
LoadState(r) ==
  /\ ~InSync
  /\ run[r].pc = "load"
  /\ run' = [run EXCEPT ![r].pc = "list", ![r].state = persisted]
  /\ UNCHANGED <<fs, clock, persisted, store, started, changes, txlog, calls, answer, trig, proc, rate>>

\* ArchiveScanner.scan, getFilesRecursively: the files of both trees are
\* listed; a directory that cannot be read makes scan throw.
ListFiles(r, readable) ==
  /\ ~InSync
  /\ run[r].pc = "list"
  /\ run' = IF readable
            THEN [run EXCEPT ![r].pc = "scan", ![r].listedAt = changes,
                             ![r].todo = {f \in Files : fs[f].exists}]
            ELSE [run EXCEPT ![r].pc = "failed", ![r].failedIn = "scan"]
  /\ UNCHANGED <<fs, clock, persisted, store, started, changes, txlog, calls, answer, trig, proc, rate>>

\* The lastScanTime runIndexing hands to scan, "force ? undefined :
\* state.lastScanTime", and scan to the archive scans, "force ? undefined :
\* lastScanDate" (0: undefined).
LastScanTimeArg(force, state) == IF force THEN 0 ELSE state

\* A scan test that skips only files modified strictly before lastScanTime.
SkippedByScanStrict(mtime, lastScanTime) ==
  lastScanTime # 0 /\ mtime < lastScanTime

\* The test "if (lastScanTime) { if (stats.mtime <= lastScanTime) continue }"
\* of scanResearchArchive and scanUrlContentArchive.
SkippedByScan(mtime, lastScanTime) == lastScanTime # 0 /\ mtime <= lastScanTime

\* One iteration of the "for (const filePath of files)" loop: a file that has
\* disappeared makes fs.stat throw and is skipped.
ExamineFile(r, f) ==
  /\ ~InSync
  /\ run[r].pc = "scan"
  /\ f \in run[r].todo
  /\ run' = [run EXCEPT
       ![r].todo = @ \ {f},
       ![r].firstExamined = IF @ = 0 THEN clock ELSE @,
       ![r].documents =
          IF \/ ~fs[f].exists
             \/ SkippedByScan(fs[f].mtime,
                              LastScanTimeArg(run[r].force, run[r].state))
          THEN @ ELSE @ \cup {ScannedDocument(f, fs[f].v)}]
  /\ UNCHANGED <<fs, clock, persisted, store, started, changes, txlog, calls, answer, trig, proc, rate>>

\* The time scan reports: "scanTime: new Date().toISOString()" in its return
\* statement.
ScanTimeOf(now, r) == now

\* Both archive scans have finished; scan returns.
ScanReturn(r) ==
  /\ ~InSync
  /\ run[r].pc = "scan"
  /\ run[r].todo = {}
  /\ run' = [run EXCEPT ![r].pc = "process",
                        ![r].scanTime = ScanTimeOf(clock, r)]
  /\ UNCHANGED <<fs, clock, persisted, store, started, changes, txlog, calls, answer, trig, proc, rate>>

\* contentProcessor.processDocuments.
Process(r) ==
  /\ ~InSync
  /\ run[r].pc = "process"
  /\ run' = [run EXCEPT ![r].pc = "begin",
                        ![r].pending = processDocuments(run[r].documents)]
  /\ UNCHANGED <<fs, clock, persisted, store, started, changes, txlog, calls, answer, trig, proc, rate>>

\* this.db.beginTransaction(), outside the inner try: a failure goes to the
\* outer catch and no rollback is issued.
Begin(r) ==
  /\ ~InSync
  /\ run[r].pc = "begin"
  /\ LET b == beginTransaction(store) IN
     /\ store' = b.h
     /\ txlog' = <<[by |-> "runIndexing", op |-> "begin", ok |-> b.ok]>>
     /\ run' = IF ~b.ok
               THEN [run EXCEPT ![r].pc = "failed", ![r].failedIn = "begin"]
               ELSE IF run[r].pending = {}
               THEN [run EXCEPT ![r].pc = "build"]
               ELSE [run EXCEPT ![r].pc = "write"]
  /\ UNCHANGED <<fs, clock, persisted, started, changes, calls, answer, trig, proc, rate>>

\* A write step that leaves a document already stored as it is.
UpsertKeepingStored(d, doc) ==
  IF getDocument(d, doc.id) # {} THEN d ELSE addDocument(d, doc).db

\* The body of the write loop: "const existing = getDocument(document.id);
\* if (existing) updateDocument(document) else addDocument(document)".
Upsert(d, doc) ==
  IF getDocument(d, doc.id) # {} THEN updateDocument(d, doc)
  ELSE addDocument(d, doc).db

\* One iteration of "for (const document of processedDocuments)".
WriteDocument(r, doc) ==
  /\ run[r].pc = "write"
  /\ doc \in run[r].pending
  /\ LET left == run[r].pending \ {doc}
     IN
     /\ store' = [store EXCEPT !.db = Upsert(store.db, doc)]
     /\ run' = [run EXCEPT
          ![r].pending = left,
          ![r].pc = IF left = {} THEN "build" ELSE "write"]
  /\ UNCHANGED <<fs, clock, persisted, started, changes, txlog, calls, answer, trig, proc, rate>>

\* A runIndexing whose try block around the writes also holds the BEGIN.
CatchOfInner(stage) == "rollback"

\* Where an exception of a store statement is caught: beginTransaction is
\* called before the inner try (outer catch: logged and thrown on), the write
\* loop and the COMMIT inside it (inner catch: rollbackTransaction first).
CatchOf(stage) == IF stage = "begin" THEN "failed" ELSE "rollback"

\* The BEGIN, a statement of the write loop or the COMMIT fails (disk full,
\* I/O error).
StoreError(r) ==
  /\ run[r].pc \in {"begin", "write", "commit"}
  /\ (run[r].pc = "begin") => ~InSync
  /\ run' = [run EXCEPT ![r].failedIn = run[r].pc,
                        ![r].pc = CatchOf(run[r].pc)]
  /\ txlog' = CASE run[r].pc = "begin" ->
                    <<[by |-> "runIndexing", op |-> "begin", ok |-> FALSE]>>
                [] run[r].pc = "commit" ->
                    Append(txlog, [by |-> "runIndexing", op |-> "commit",
                                   ok |-> FALSE])
                [] OTHER -> txlog
  /\ UNCHANGED <<fs, clock, persisted, store, started, changes, calls, answer, trig, proc, rate>>

\* A run that lets buildFromArchives manage its own transaction.
RunManageTransactionOn == TRUE

\* The flag runIndexing passes to buildFromArchives.
RunManageTransaction == FALSE

\* The deletedIds of a ScanResult: scan returns "deletedIds: []" whatever it
\* found on disk.
deletedIds == {}

\* "for (const id of scanResult.deletedIds) this.db.deleteDocument(id)": a
\* refused DELETE throws.
RECURSIVE DeleteLoop(_, _)
DeleteLoop(d, ids) ==
  IF ids = {} THEN [ok |-> TRUE, db |-> d]
  ELSE LET id == CHOOSE x \in ids : TRUE
           del == deleteDocument(d, id)
       IN IF del.ok THEN DeleteLoop(del.db, ids \ {id}) ELSE del

\* The loop over scanResult.deletedIds, then
\* this.citationGraph.buildFromArchives({..., manageTransaction: false}).
BuildCitations(r, collideAt) ==
  /\ run[r].pc = "build"
  /\ collideAt \in 0..Len(CitationsToStore(store.db))
  /\ LET del == DeleteLoop(store.db, deletedIds)
         b == buildFromArchives([store EXCEPT !.db = del.db],
                                RunManageTransaction, collideAt)
     IN
     IF ~del.ok
     THEN /\ store' = [store EXCEPT !.db = del.db]
          /\ txlog' = txlog
          /\ run' = [run EXCEPT ![r].pc = "rollback",
                                ![r].failedIn = "delete"]
     ELSE /\ store' = b.h
          /\ txlog' = txlog \o [i \in 1..Len(b.calls) |->
                        [by |-> "buildFromArchives", op |-> b.calls[i].op,
                         ok |-> b.calls[i].ok]]
          /\ run' = IF b.ok
                    THEN [run EXCEPT ![r].pc = "commit"]
                    ELSE [run EXCEPT ![r].pc = "rollback",
                                     ![r].failedIn = "build"]
  /\ UNCHANGED <<fs, clock, persisted, started, changes, calls, answer, trig, proc, rate>>

\* this.db.commitTransaction(), then saveState is called and awaited.
Commit(r) ==
  /\ run[r].pc = "commit"
  /\ LET c == commitTransaction(store) IN
     /\ store' = c.h
     /\ txlog' = Append(txlog, [by |-> "runIndexing", op |-> "commit", ok |-> c.ok])
     /\ run' = IF c.ok THEN [run EXCEPT ![r].pc = "save"]
               ELSE [run EXCEPT ![r].pc = "rollback", ![r].failedIn = "commit"]
  /\ UNCHANGED <<fs, clock, persisted, started, changes, calls, answer, trig, proc, rate>>

\* saveState({lastScanTime: scanResult.scanTime}): a write error is logged
\* and swallowed.
SaveState(r, written) ==
  /\ ~InSync
  /\ run[r].pc = "save"
  /\ persisted' = IF written THEN run[r].scanTime ELSE persisted
  /\ run' = [run EXCEPT ![r].pc = "done"]
  /\ UNCHANGED <<fs, clock, store, started, changes, txlog, calls, answer, trig, proc, rate>>

\* The inner catch: this.db.rollbackTransaction(); throw error.
Rollback(r) ==
  /\ run[r].pc = "rollback"
  /\ LET b == rollbackTransaction(store) IN
     /\ store' = b.h
     /\ txlog' = Append(txlog, [by |-> "runIndexing", op |-> "rollback", ok |-> b.ok])
  /\ run' = [run EXCEPT ![r].pc = "failed"]
  /\ UNCHANGED <<fs, clock, persisted, started, changes, calls, answer, trig, proc, rate>>

\* runIndexing has returned its statistics or thrown "Indexing failed: ...".
Return(r) ==
  /\ ~InSync
  /\ run[r].pc \in {"done", "failed"}
  /\ run' = [run EXCEPT ![r] = IdleRun]
  /\ txlog' = <<>>
  /\ UNCHANGED <<fs, clock, persisted, store, started, changes, calls, answer, trig, proc, rate>>

Next ==
  \/ Tick
  \/ \E f \in Files, v \in Versions : WriteFile(f, v)
  \/ \E f \in Files : DeleteFile(f)
  \/ \E r \in Runs, force \in BOOLEAN : StartRun(r, force)
  \/ \E r \in Runs : LoadState(r)
  \/ \E r \in Runs, readable \in BOOLEAN : ListFiles(r, readable)
  \/ \E r \in Runs, f \in Files : ExamineFile(r, f)
  \/ \E r \in Runs : ScanReturn(r)
  \/ \E r \in Runs : Process(r)
  \/ \E r \in Runs : Begin(r)
  \/ \E r \in Runs : \E doc \in run[r].pending : WriteDocument(r, doc)
  \/ \E r \in Runs : StoreError(r)
  \/ \E r \in Runs, k \in 0..8 : BuildCitations(r, k)
  \/ \E r \in Runs : Commit(r)
  \/ \E r \in Runs, written \in BOOLEAN : SaveState(r, written)
  \/ \E r \in Runs : Rollback(r)
  \/ \E r \in Runs : Return(r)

Spec == Init /\ [][Next]_vars

\* ------------------------------------------------------------ SearchAPI
\* What the query methods read: SearchAPI opens a connection of its own on the
\* database file, so listDocuments and getCitationsForDocument return the
\* committed rows.
ReaderView ==
  [documents |-> listDocuments(Committed(store)),
   citations |-> Committed(store).citations]

\* Words a title, a body or a query is made of; texts are sequences of them.
Words == {"tla", "Tla", "doc"}

\* Longest body text, in words, a searched document has.
MaxTextLen == 3

\* String.prototype.toLowerCase, word by word.
toLowerCase(text) ==
  [i \in 1..Len(text) |-> IF text[i] = "Tla" THEN "tla" ELSE text[i]]

\* normalizedText.match(new RegExp(term, 'gi')).length: the occurrences of
\* the term in the text.
RECURSIVE Occurrences(_, _)
Occurrences(text, term) ==
  IF text = <<>> THEN 0
  ELSE (IF Head(text) = term THEN 1 ELSE 0) + Occurrences(Tail(text), term)

\* SearchAPI.calculateFieldScore: text and query are lower-cased, the query
\* is split into terms, and every term found in the text adds the number of
\* its occurrences.
RECURSIVE SumOccurrences(_, _)
SumOccurrences(text, terms) ==
  IF terms = <<>> THEN 0
  ELSE Occurrences(text, Head(terms)) + SumOccurrences(text, Tail(terms))

calculateFieldScore(text, query) ==
  IF text = <<>> \/ query = <<>> THEN 0
  ELSE SumOccurrences(toLowerCase(text), toLowerCase(query))

\* The score searchDocuments gives a document over the default fields
\* title, content and query: title score * 2 + content score + query score
\* * 1.5.  The model keeps twice that number, an integer.
Score2(document, query) ==
  4 * calculateFieldScore(document.title, query)
    + 2 * calculateFieldScore(document.content, query)
    + 3 * calculateFieldScore(document.query, query)

\* Array.prototype.sort((a, b) => b.score - a.score), a stable sort: x goes
\* after the entries that score at least as much.
RECURSIVE InsertByScore(_, _)
InsertByScore(x, sorted) ==
  IF sorted = <<>> THEN <<x>>
  ELSE IF Head(sorted).score2 >= x.score2
       THEN <<Head(sorted)>> \o InsertByScore(x, Tail(sorted))
       ELSE <<x>> \o sorted

RECURSIVE SortByScore(_)
SortByScore(rs) ==
  IF rs = <<>> THEN <<>>
  ELSE InsertByScore(rs[Len(rs)], SortByScore(SubSeq(rs, 1, Len(rs) - 1)))

\* A search that cuts the list to `limit` entries before it sorts it.
searchDocumentsSliceFirst(allDocuments, query, limit) ==
  LET scored == [i \in 1..Len(allDocuments) |->
                   [id |-> allDocuments[i].id,
                    score2 |-> Score2(allDocuments[i], query)]]
      kept == SelectSeq(scored, LAMBDA x : x.score2 > 0)
  IN SortByScore(SubSeq(kept, 1, IF limit < Len(kept) THEN limit
                                  ELSE Len(kept)))

\* SearchAPI.searchDocuments over the rows of listDocuments(): score, keep
\* the documents scoring above 0, sort by score, slice(0, limit).
searchDocuments(allDocuments, query, limit) ==
  LET scored == [i \in 1..Len(allDocuments) |->
                   [id |-> allDocuments[i].id,
                    score2 |-> Score2(allDocuments[i], query)]]
      kept == SelectSeq(scored, LAMBDA x : x.score2 > 0)
      sorted == SortByScore(kept)
  IN SubSeq(sorted, 1, IF limit < Len(sorted) THEN limit ELSE Len(sorted))

\* "limit = 50" in the destructuring of search's options.
DefaultLimit == 50

\* The limit search works with: the option, given here as {n}, or the
\* default when the option is absent ({}).
LimitOf(option) ==
  IF option = {} THEN DefaultLimit ELSE CHOOSE n \in option : TRUE

\* SearchAPI.search: the results of searchDocuments as SearchResults.
search(allDocuments, query, option) ==
  searchDocuments(allDocuments, query, LimitOf(option))

\* A lookup that answers an unknown id with an empty result.
findRelatedLenient(d, documentId, depth) ==
  [ok |-> TRUE,
   result |-> {id \in findRelatedDocuments(d, documentId, depth) :
                 getDocument(d, id) # {}}]

\* SearchAPI.findRelated on the tables d its connection reads: an unknown id
\* throws "Document with ID ... not found", which handleError rethrows as
\* "Search API error during findRelated: ..."; otherwise the related ids that
\* getDocument finds.
findRelated(d, documentId, depth) ==
  IF getDocument(d, documentId) = {}
  THEN [ok |-> FALSE,
        error |-> [operation |-> "findRelated", notFound |-> documentId]]
  ELSE [ok |-> TRUE,
        result |-> {id \in findRelatedDocuments(d, documentId, depth) :
                      getDocument(d, id) # {}}]

\* Confidences are kept as fractions <<numerator, denominator>>.
FracAdd(a, b) == <<a[1] * b[2] + b[1] * a[2], a[2] * b[2]>>

FracEq(a, b) == a[1] * b[2] = b[1] * a[2]

\* allConfidences.reduce((sum, conf) => sum + conf, 0) over a list of
\* citations (distinct rows).
RECURSIVE SumConfidence(_)
SumConfidence(cits) ==
  IF cits = {} THEN <<0, 1>>
  ELSE LET c == CHOOSE x \in cits : TRUE
       IN FracAdd(c.confidence, SumConfidence(cits \ {c}))

\* SearchAPI.generateCitationReport (metrics): citing and cited are the two
\* getCitationsForDocument lists; outgoingCount is citing.length, incomingCount
\* cited.length, averageConfidence the mean over both lists, 0 when empty.
generateCitationReport(d, documentId) ==
  IF getDocument(d, documentId) = {}
  THEN [ok |-> FALSE,
        error |-> [operation |-> "generateCitationReport",
                   notFound |-> documentId]]
  ELSE LET citing == getCitationsForDocument(d, documentId, "citing")
           cited == getCitationsForDocument(d, documentId, "cited")
           n == Cardinality(citing) + Cardinality(cited)
           sum == FracAdd(SumConfidence(citing), SumConfidence(cited))
       IN [ok |-> TRUE,
           metrics |-> [outgoingCount |-> Cardinality(citing),
                        incomingCount |-> Cardinality(cited),
                        averageConfidence |->
                          IF n > 0 THEN <<sum[1], sum[2] * n>> ELSE <<0, 1>>]]

\* nodes.set(id, {id, type}) on the Map of nodes, kept as a set of entries.
SetNode(nodes, id, type) ==
  {n \in nodes : n.id # id} \cup {[id |-> id, type |-> type]}

\* "if (!nodes.has(id)) { const doc = getDocument(id); if (doc) nodes.set(...) }".
AddNodeIfAbsent(d, nodes, id, type) ==
  IF (\E n \in nodes : n.id = id) \/ getDocument(d, id) = {} THEN nodes
  ELSE nodes \cup {[id |-> id, type |-> type]}

\* edges.set(`${from}->${to}`, {from, to, confidence}).
SetEdge(edges, from, to, confidence) ==
  {e \in edges : ~(e.from = from /\ e.to = to)}
    \cup {[from |-> from, to |-> to, confidence |-> confidence]}

\* The row that comes first of a list of citations (rows come back in the
\* order of their insertion).
FirstRow(cits) == CHOOSE c \in cits : \A x \in cits : c.id <= x.id

\* "for (const citation of citing)": a row with a targetId adds the target as
\* a node and the edge docId -> targetId.
RECURSIVE CitingLoop(_, _, _, _)
CitingLoop(d, docId, cits, g) ==
  IF cits = {} THEN g
  ELSE LET c == FirstRow(cits) IN
       CitingLoop(d, docId, cits \ {c},
         IF c.targetId = NoDoc THEN g
         ELSE [nodes |-> AddNodeIfAbsent(d, g.nodes, c.targetId, "target"),
               edges |-> SetEdge(g.edges, docId, c.targetId, c.confidence)])

\* "for (const citation of cited)": a row adds its source as a node and the
\* edge sourceId -> docId.
RECURSIVE CitedLoop(_, _, _, _)
CitedLoop(d, docId, cits, g) ==
  IF cits = {} THEN g
  ELSE LET c == FirstRow(cits) IN
       CitedLoop(d, docId, cits \ {c},
         [nodes |-> AddNodeIfAbsent(d, g.nodes, c.sourceId, "source"),
          edges |-> SetEdge(g.edges, c.sourceId, docId, c.confidence)])

\* "for (const docId of documentIds)": an id getDocument does not find is
\* skipped ("if (!document) continue").
RECURSIVE VisualizeLoop(_, _, _)
VisualizeLoop(d, documentIds, g) ==
  IF documentIds = <<>> THEN g
  ELSE LET docId == Head(documentIds) IN
       VisualizeLoop(d, Tail(documentIds),
         IF getDocument(d, docId) = {} THEN g
         ELSE CitedLoop(d, docId,
                getCitationsForDocument(d, docId, "cited"),
                CitingLoop(d, docId,
                  getCitationsForDocument(d, docId, "citing"),
                  [g EXCEPT !.nodes = SetNode(g.nodes, docId, "source")])))

\* SearchAPI.generateCitationVisualization: the nodes and edges collected
\* over documentIds, a node that is both end of some edge and start of some
\* edge typed 'both'.
generateCitationVisualization(d, documentIds) ==
  LET g == VisualizeLoop(d, documentIds, [nodes |-> {}, edges |-> {}]) IN
  [ok |-> TRUE,
   nodes |-> {[n EXCEPT !.type =
                 IF /\ \E e \in g.edges : e.from = n.id
                    /\ \E e \in g.edges : e.to = n.id
                 THEN "both" ELSE @] : n \in g.nodes},
   edges |-> g.edges]

\* Texts of at most n words.
TextsUpTo(n) == UNION {[1..k -> Words] : k \in 0..n}

\* The documents a searched corpus is drawn from.
Titles == TextsUpTo(1)
Bodies == TextsUpTo(MaxTextLen)
QueryFields == {<<>>, <<"tla">>}
Queries == {<<"Tla">>, <<"tla", "doc">>}
Limits == {{}, {1}, {2}}

\* A caller searches a store holding documents X and Y, listed in this order
\* (the function is pure: one call per behaviour).
ApiSearch(x, y, query, limit) ==
  /\ answer = NoAnswer
  /\ answer' = [op |-> "search", query |-> query, limit |-> LimitOf(limit),
                corpus |-> <<[x EXCEPT !.id = "X"], [y EXCEPT !.id = "Y"]>>,
                result |-> search(<<[x EXCEPT !.id = "X"],
                                    [y EXCEPT !.id = "Y"]>>, query, limit)]
  /\ UNCHANGED <<fs, clock, persisted, store, run, started, changes, txlog, calls, trig, proc, rate>>

SearchedDocuments ==
  [id : {"X"}, title : Titles, content : Bodies, query : QueryFields]

NextSearch ==
  /\ answer = NoAnswer
  /\ \E x \in SearchedDocuments, y \in SearchedDocuments,
        query \in Queries, limit \in Limits : ApiSearch(x, y, query, limit)

SpecSearch == Init /\ [][NextSearch]_vars

\* ------------------------------------------ a caller of the CitationGraph
\* Pieces of the longest text handed to extractExplicitCitations.
MaxTokens == 3
\* Paragraphs of the longest text handed to detectImplicitCitations.
MaxParas == 2

Schemes == {"http", "https", "HTTP"}
UrlBodies == {"x.com/a", "y.org/b"}
Urls == [scheme : Schemes, body : UrlBodies, slash : BOOLEAN, upper : BOOLEAN]

Tokens == {Word, Bare(UrlA)} \cup {Link(u) : u \in Urls}
ParaWords == {"w1", "w2", "w3", "w4"}
Paragraphs == [words : SUBSET ParaWords, len : {60, 120}]

SeqsUpTo(S, n) == UNION {[1..k -> S] : k \in 0..n}

\* A research document with the given text.
CitingDocument(tokens, paras, type) ==
  [id |-> generateDocumentId("r1", "research"), source |-> "research",
   type |-> type, originalUrl |-> NoUrl,
   content |-> RawContent([tokens |-> tokens, header |-> NoUrl,
                           report |-> type = "report", paras |-> paras])]

\* A captured page f with a recorded original URL (NoUrl: none recorded).
UrlDocument(f, url, paras) ==
  [id |-> generateDocumentId(f, "url-content"), source |-> "url-content",
   type |-> "webpage", originalUrl |-> url,
   content |-> RawContent([tokens |-> <<>>, header |-> url,
                           report |-> FALSE, paras |-> paras])]

\* The three extraction functions are pure: one call per behaviour.
ApiExtract(tokens) ==
  LET document == CitingDocument(tokens, <<>>, "report") IN
  /\ answer = NoAnswer
  /\ answer' = [op |-> "extract", document |-> document,
                result |-> extractExplicitCitations(document)]
  /\ UNCHANGED <<fs, clock, persisted, store, run, started, changes, txlog, calls, trig, proc, rate>>

ApiMatch(url, a, b) ==
  LET document == CitingDocument(<<Link(url)>>, <<>>, "report")
      urlContentDocuments == {UrlDocument("u1", a, <<>>),
                              UrlDocument("u2", b, <<>>)}
  IN
  /\ answer = NoAnswer
  /\ answer' = [op |-> "match", document |-> document,
                urlContentDocuments |-> urlContentDocuments,
                result |-> matchUrlReferences(document, urlContentDocuments)]
  /\ UNCHANGED <<fs, clock, persisted, store, run, started, changes, txlog, calls, trig, proc, rate>>

ApiDetect(paras, type, otherWords) ==
  LET document == CitingDocument(<<>>, paras, type)
      allDocuments ==
        {document,
         UrlDocument("u1", UrlA,
                     IF otherWords = {} THEN <<>>
                     ELSE <<[words |-> otherWords, len |-> 120]>>)}
  IN
  /\ answer = NoAnswer
  /\ answer' = [op |-> "detect", document |-> document,
                allDocuments |-> allDocuments,
                result |-> detectImplicitCitations(document, allDocuments)]
  /\ UNCHANGED <<fs, clock, persisted, store, run, started, changes, txlog, calls, trig, proc, rate>>

NextCitations ==
  \/ /\ answer = NoAnswer
     /\ \E tokens \in SeqsUpTo(Tokens, MaxTokens) : ApiExtract(tokens)
  \/ /\ answer = NoAnswer
     /\ \E url \in Urls, a \in Urls \cup {NoUrl}, b \in Urls \cup {NoUrl} :
          ApiMatch(url, a, b)
  \/ /\ answer = NoAnswer
     /\ \E paras \in SeqsUpTo(Paragraphs, MaxParas),
           type \in {"report", "unknown"}, otherWords \in SUBSET ParaWords :
          ApiDetect(paras, type, otherWords)

SpecCitations == Init /\ [][NextCitations]_vars

\* ------------------------------------------- a client of the store handle
\* The Document a client holds for file f.
ClientDocument(f) == processDocument(ScannedDocument(f, 1))

ApiAddDocument(f) ==
  /\ calls < MaxCalls
  /\ calls' = calls + 1
  /\ LET a == addDocument(store.db, ClientDocument(f)) IN
     /\ store' = [store EXCEPT !.db = a.db]
     /\ answer' = [op |-> "addDocument", ok |-> a.ok]
  /\ UNCHANGED <<fs, clock, persisted, run, started, changes, txlog, trig, proc, rate>>

\* updateDocument with the next version of the client's document for f.
ApiUpdateDocument(f) ==
  /\ calls < MaxCalls
  /\ calls' = calls + 1
  /\ LET doc == processDocument(ScannedDocument(f, 2)) IN
     /\ store' = [store EXCEPT !.db = updateDocument(store.db, doc)]
     /\ answer' = [op |-> "updateDocument",
                   ok |-> getDocument(store.db, doc.id) # {}]
  /\ UNCHANGED <<fs, clock, persisted, run, started, changes, txlog, trig, proc, rate>>

ApiDeleteDocument(id) ==
  /\ calls < MaxCalls
  /\ calls' = calls + 1
  /\ LET a == deleteDocument(store.db, id) IN
     /\ store' = [store EXCEPT !.db = a.db]
     /\ answer' = [op |-> "deleteDocument", ok |-> a.ok]
  /\ UNCHANGED <<fs, clock, persisted, run, started, changes, txlog, trig, proc, rate>>

\* Confidences a client stores: an explicit link, an implicit citation.
Confidences == {One, <<4, 5>>}

ApiAddCitation(sourceId, targetId, confidence) ==
  /\ calls < MaxCalls
  /\ calls' = calls + 1
  /\ LET a == addCitation(store.db,
                [sourceId |-> sourceId, targetId |-> targetId,
                 targetUrl |-> UrlB, context |-> <<"link", 1>>,
                 confidence |-> confidence], FALSE)
     IN
     /\ store' = [store EXCEPT !.db = a.db]
     /\ answer' = [op |-> "addCitation", ok |-> a.ok]
  /\ UNCHANGED <<fs, clock, persisted, run, started, changes, txlog, trig, proc, rate>>

ApiBegin ==
  /\ calls < MaxCalls
  /\ calls' = calls + 1
  /\ LET b == beginTransaction(store) IN
     /\ store' = b.h
     /\ answer' = [op |-> "begin", ok |-> b.ok, before |-> store]
  /\ UNCHANGED <<fs, clock, persisted, run, started, changes, txlog, trig, proc, rate>>

ApiCommit ==
  /\ calls < MaxCalls
  /\ calls' = calls + 1
  /\ LET b == commitTransaction(store) IN
     /\ store' = b.h
     /\ answer' = [op |-> "commit", ok |-> b.ok, before |-> store]
  /\ UNCHANGED <<fs, clock, persisted, run, started, changes, txlog, trig, proc, rate>>

ApiRollback ==
  /\ calls < MaxCalls
  /\ calls' = calls + 1
  /\ LET b == rollbackTransaction(store) IN
     /\ store' = b.h
     /\ answer' = [op |-> "rollback", ok |-> b.ok, before |-> store]
  /\ UNCHANGED <<fs, clock, persisted, run, started, changes, txlog, trig, proc, rate>>

ApiGetCitations(id, direction) ==
  /\ answer' = [op |-> "citations", id |-> id, direction |-> direction,
                result |-> getCitationsForDocument(store.db, id, direction)]
  /\ answer' # answer
  /\ UNCHANGED <<fs, clock, persisted, store, run, started, changes, txlog, calls, trig, proc, rate>>

\* Depths a client asks findRelatedDocuments for.
Depths == {1, 2}

ApiFindRelated(id, depth) ==
  /\ answer' = [op |-> "related", id |-> id, depth |-> depth,
                result |-> findRelatedDocuments(store.db, id, depth)]
  /\ answer' # answer
  /\ UNCHANGED <<fs, clock, persisted, store, run, started, changes, txlog, calls, trig, proc, rate>>

\* SearchAPI.findRelated and generateCitationReport: the SearchAPI holds a
\* connection of its own to the database file and reads what is committed.
ApiSearchFindRelated(id, depth) ==
  /\ answer' = [op |-> "findRelated", id |-> id, depth |-> depth,
                out |-> findRelated(Committed(store), id, depth)]
  /\ answer' # answer
  /\ UNCHANGED <<fs, clock, persisted, store, run, started, changes, txlog, calls, trig, proc, rate>>

ApiCitationReport(id) ==
  /\ answer' = [op |-> "report", id |-> id,
                out |-> generateCitationReport(Committed(store), id)]
  /\ answer' # answer
  /\ UNCHANGED <<fs, clock, persisted, store, run, started, changes, txlog, calls, trig, proc, rate>>

\* Lists of one or two document ids handed to the visualization.
IdLists ==
  {<<a>> : a \in DocIds}
    \cup {<<a, b>> : <<a, b>> \in {p \in DocIds \X DocIds : p[1] # p[2]}}

ApiCitationVisualization(ids) ==
  /\ answer' = [op |-> "visualize", ids |-> ids,
                out |-> generateCitationVisualization(Committed(store), ids)]
  /\ answer' # answer
  /\ UNCHANGED <<fs, clock, persisted, store, run, started, changes, txlog, calls, trig, proc, rate>>

NextStore ==
  \/ \E f \in DocFiles : ApiAddDocument(f)
  \/ \E f \in DocFiles : ApiUpdateDocument(f)
  \/ \E id \in DocIds : ApiDeleteDocument(id)
  \/ \E a \in DocIds, b \in DocIds \cup {NoDoc}, c \in Confidences :
       ApiAddCitation(a, b, c)
  \/ ApiBegin
  \/ ApiCommit
  \/ ApiRollback
  \/ \E id \in DocIds, dir \in {"citing", "cited"} : ApiGetCitations(id, dir)
  \/ \E id \in DocIds, depth \in Depths : ApiFindRelated(id, depth)
  \/ \E id \in DocIds, depth \in Depths : ApiSearchFindRelated(id, depth)
  \/ \E id \in DocIds : ApiCitationReport(id)

SpecStore == Init /\ [][NextStore]_vars

\* The client fills the store and asks for visualizations.
NextVisualize ==
  \/ \E f \in DocFiles : ApiAddDocument(f)
  \/ \E f \in DocFiles : ApiUpdateDocument(f)
  \/ \E id \in DocIds : ApiDeleteDocument(id)
  \/ \E a \in DocIds, b \in DocIds \cup {NoDoc}, c \in Confidences :
       ApiAddCitation(a, b, c)
  \/ ApiBegin
  \/ ApiCommit
  \/ ApiRollback
  \/ \E ids \in IdLists : ApiCitationVisualization(ids)

SpecVisualize == Init /\ [][NextVisualize]_vars

\* citationGraph.buildFromArchives({researchPath, urlContentPath}) called by
\* the client itself: manageTransaction takes its default, true.
ApiBuildFromArchives(collideAt) ==
  /\ calls < MaxCalls
  /\ calls' = calls + 1
  /\ collideAt \in 0..Len(CitationsToStore(store.db))
  /\ LET b == buildFromArchives(store, TRUE, collideAt) IN
     /\ store' = b.h
     /\ answer' = [op |-> "build", ok |-> b.ok, before |-> store,
                   calls |-> b.calls, citations |-> b.citations]
  /\ UNCHANGED <<fs, clock, persisted, run, started, changes, txlog, trig, proc, rate>>

\* The client fills the store and builds the citation graph itself.
NextBuild ==
  \/ \E f \in DocFiles : ApiAddDocument(f)
  \/ \E f \in DocFiles : ApiUpdateDocument(f)
  \/ ApiBegin
  \/ ApiCommit
  \/ ApiRollback
  \/ \E k \in 0..8 : ApiBuildFromArchives(k)

SpecBuild == Init /\ [][NextBuild]_vars

\* ------------------------------------------------- the indexing triggers
\* Seconds the model lets pass in one behaviour.
MaxTime == 12
\* Trigger events (file changes, cron ticks) in one behaviour.
MaxEvents == 4
\* Calls of setupTriggers, stopTriggers and runIndexing the host makes in one
\* behaviour of SpecTriggers.
MaxOps == 2

\* The debounce delay of the watcher callback, setTimeout(..., 5000), in
\* seconds.
DebounceSeconds == 5

\* The directories setupTriggers watches.
WatchDirs == {"research-archive", "url-content-archive"}

\* The schedule option: absent, a cron expression, a malformed one.
Schedules == {"none", "cron", "malformed"}

\* schedule.scheduleJob(cronSchedule, callback) of node-schedule: the job, or
\* null for an expression it cannot parse.
scheduleJob(cronSchedule) ==
  IF cronSchedule = "malformed" THEN "null" ELSE "job"

\* "if (this.watchDebounceTimer) { clearTimeout(this.watchDebounceTimer) }"
\* of stopTriggers.
ClearedAtStop(timers, handle) ==
  IF handle # 0 THEN {t \in timers : t.id # handle} ELSE timers

\* IndexingTrigger.stopTriggers: "for (const job of this.jobs) job.cancel()"
\* throws a TypeError at a null entry, before anything else is done; the jobs
\* before it are cancelled.
stopTriggers(t) ==
  IF \E i \in 1..Len(t.jobs) : t.jobs[i] = "null"
  THEN LET n == CHOOSE i \in 1..Len(t.jobs) :
                  /\ t.jobs[i] = "null"
                  /\ \A j \in 1..(i - 1) : t.jobs[j] # "null"
       IN [ok |-> FALSE,
           t |-> [t EXCEPT !.jobs = [i \in 1..Len(t.jobs) |->
                               IF i < n THEN "cancelled" ELSE t.jobs[i]]]]
  ELSE [ok |-> TRUE,
        t |-> [t EXCEPT
                 !.jobs = <<>>,
                 !.watchers = {},
                 !.timers = ClearedAtStop(t.timers, t.watchDebounceTimer),
                 !.watchDebounceTimer = 0]]

\* IndexingTrigger.setupTriggers: stopTriggers, then
\* "if (cronSchedule) { const job = schedule.scheduleJob(...);
\* this.jobs.push(job) }", then one watcher per directory.
setupTriggers(t, cronSchedule, watchFiles, watchDirs) ==
  LET s == stopTriggers(t) IN
  IF ~s.ok THEN [ok |-> FALSE, t |-> s.t]
  ELSE [ok |-> TRUE,
        t |-> [s.t EXCEPT
                 !.jobs = IF cronSchedule # "none"
                          THEN <<scheduleJob(cronSchedule)>> ELSE <<>>,
                 !.watchers = IF watchFiles THEN watchDirs ELSE {}]]

\* SearchIndex.setupTriggers: an exception of IndexingTrigger.setupTriggers
\* is logged and thrown on to the caller.
ApiSetupTriggers(cronSchedule, watchFiles, watchDirs) ==
  /\ trig.ops < MaxOps
  /\ LET s == setupTriggers(trig, cronSchedule, watchFiles, watchDirs) IN
     trig' = [s.t EXCEPT
       !.ops = @ + 1,
       !.lastCall = [op |-> "setupTriggers", schedule |-> cronSchedule,
                     watched |-> IF watchFiles THEN watchDirs ELSE {},
                     threw |-> ~s.ok],
       !.stopped = FALSE,
       !.startedAfterStop = FALSE]
  /\ UNCHANGED <<fs, clock, persisted, store, run, started, changes, txlog,
                 calls, answer, proc, rate>>

\* SearchIndex.stopTriggers (also the first step of SearchIndex.close): an
\* exception of IndexingTrigger.stopTriggers is logged and the call returns.
ApiStopTriggers ==
  /\ trig.ops < MaxOps
  /\ LET s == stopTriggers(trig) IN
     trig' = [s.t EXCEPT
       !.ops = @ + 1,
       !.lastCall = [op |-> "stopTriggers", schedule |-> "none",
                     watched |-> {},
                     threw |-> FALSE],
       !.stopped = TRUE,
       !.startedAfterStop = FALSE]
  /\ UNCHANGED <<fs, clock, persisted, store, run, started, changes, txlog,
                 calls, answer, proc, rate>>

\* runIndexing is entered for the invoker `by`.
RunStarted(t, by) ==
  [t EXCEPT
     !.runsTriggered = @ + 1,
     !.inflight[by] = @ + 1,
     !.startedAfterFailure = @ \/ (t.failed /\ by # "manual"),
     !.startedAfterStop = @ \/ (t.stopped /\ by # "manual")]

\* A timer is due; the event loop runs due timers before it delivers further
\* events or lets time pass.
TimerDue == \E t \in trig.timers : t.due <= trig.now

\* A watcher callback that sets a new timer without clearing the pending one.
ClearedTimersNone(timers, handle) == timers

\* "if (this.watchDebounceTimer) clearTimeout(this.watchDebounceTimer)":
\* the timers still pending afterwards (clearing a timer that has fired does
\* nothing).
ClearedTimers(timers, handle) ==
  IF handle # 0 THEN {t \in timers : t.id # handle} ELSE timers

\* The callback of fs.watch(dir, ...) for one file-change event of a watched
\* directory: the pending debounce timer is cleared and a new one set, 5
\* seconds from now.
WatchEvent(dir) ==
  /\ dir \in trig.watchers
  /\ trig.events < MaxEvents
  /\ ~TimerDue
  /\ trig' = [trig EXCEPT
       !.timers = ClearedTimers(trig.timers, trig.watchDebounceTimer)
                    \cup {[id |-> trig.nextId,
                           due |-> trig.now + DebounceSeconds]},
       !.watchDebounceTimer = trig.nextId,
       !.nextId = @ + 1,
       !.events = @ + 1,
       !.lastDir = dir,
       !.burstRuns = IF trig.lastEvent = -1
                        \/ trig.now - trig.lastEvent >= DebounceSeconds
                     THEN 0 ELSE @,
       !.lastEvent = trig.now]
  /\ UNCHANGED <<fs, clock, persisted, store, run, started, changes, txlog,
                 calls, answer, proc, rate>>

\* The debounce timer fires: its callback calls runIndexing.  The handle
\* watchDebounceTimer keeps naming the fired timer.
TimerFires(t) ==
  /\ t \in trig.timers
  /\ t.due <= trig.now
  /\ trig' = [RunStarted(trig, "watch") EXCEPT
                !.timers = @ \ {t},
                !.burstRuns = @ + 1]
  /\ UNCHANGED <<fs, clock, persisted, store, run, started, changes, txlog,
                 calls, answer, proc, rate>>

\* The schedule of a registered job comes round: its callback calls
\* runIndexing.
CronFires(i) ==
  /\ i \in 1..Len(trig.jobs)
  /\ trig.jobs[i] = "job"
  /\ trig.events < MaxEvents
  /\ trig' = [RunStarted(trig, "cron") EXCEPT !.events = @ + 1]
  /\ UNCHANGED <<fs, clock, persisted, store, run, started, changes, txlog,
                 calls, answer, proc, rate>>

\* The host calls SearchIndex.runIndexing itself.
ManualRun ==
  /\ trig.ops < MaxOps
  /\ trig' = [RunStarted(trig, "manual") EXCEPT !.ops = @ + 1]
  /\ UNCHANGED <<fs, clock, persisted, store, run, started, changes, txlog,
                 calls, answer, proc, rate>>

\* A handler that calls runIndexing again when it has failed.
RunFailedRetry(t, by) ==
  [RunStarted(t, by) EXCEPT
     !.inflight[by] = @ - 1,
     !.ended = @ + 1,
     !.failed = TRUE,
     !.lastReport = [by |-> by, ok |-> FALSE,
                     how |-> IF by = "manual" THEN "thrown" ELSE "logged"]]

\* runIndexing has thrown "Indexing failed: ...": the cron callback and the
\* debounce callback catch and console.error it, SearchIndex.runIndexing
\* throws it on to its caller.
RunFailed(t, by) ==
  [t EXCEPT
     !.inflight[by] = @ - 1,
     !.ended = @ + 1,
     !.failed = TRUE,
     !.lastReport = [by |-> by, ok |-> FALSE,
                     how |-> IF by = "manual" THEN "thrown" ELSE "logged"]]

\* A run in flight ends: runIndexing returns its statistics or throws.
RunEnds(by, ok) ==
  /\ trig.inflight[by] > 0
  /\ trig' = IF ok
             THEN [trig EXCEPT
                     !.inflight[by] = @ - 1,
                     !.ended = @ + 1,
                     !.lastReport = [by |-> by, ok |-> TRUE,
                                     how |-> "returned"]]
             ELSE RunFailed(trig, by)
  /\ UNCHANGED <<fs, clock, persisted, store, run, started, changes, txlog,
                 calls, answer, proc, rate>>

\* A second passes.
TimePasses ==
  /\ trig.now < MaxTime
  /\ ~TimerDue
  /\ trig' = [trig EXCEPT !.now = @ + 1]
  /\ UNCHANGED <<fs, clock, persisted, store, run, started, changes, txlog,
                 calls, answer, proc, rate>>

\* The state after setupTriggers({watchFiles: true, watchDirs}) on a new
\* IndexingTrigger.
InitWatch ==
  /\ fs = [f \in Files |->
             IF f = "u1" THEN [exists |-> FALSE, mtime |-> 0, v |-> 1]
             ELSE [exists |-> TRUE, mtime |-> 0, v |-> 1]]
  /\ clock = 1
  /\ persisted = 0
  /\ store = NewHandle
  /\ run = [r \in Runs |-> IdleRun]
  /\ started = 0
  /\ changes = 0
  /\ txlog = <<>>
  /\ calls = 0
  /\ answer = NoAnswer
  /\ trig = setupTriggers(IdleTrig, "none", TRUE, WatchDirs).t
  /\ proc = IdleProc
  /\ rate = IdleRate

NextWatch ==
  \/ \E dir \in WatchDirs : WatchEvent(dir)
  \/ \E t \in trig.timers : TimerFires(t)
  \/ TimePasses

SpecWatch == InitWatch /\ [][NextWatch]_vars

NextTriggers ==
  \/ \E c \in Schedules, w \in BOOLEAN : ApiSetupTriggers(c, w, WatchDirs)
  \/ ApiStopTriggers
  \/ \E dir \in WatchDirs : WatchEvent(dir)
  \/ \E t \in trig.timers : TimerFires(t)
  \/ \E i \in 1..Len(trig.jobs) : CronFires(i)
  \/ ManualRun
  \/ \E by \in Invokers, ok \in BOOLEAN : RunEnds(by, ok)
  \/ TimePasses

SpecTriggers == Init /\ [][NextTriggers]_vars

\* ------------------------------------- ContentProcessor.processDocuments
\* Documents handed to one processDocuments call.
MaxDocs == 7

\* "const concurrencyLimit = 5".
concurrencyLimit == 5

\* The documents a scan can hand over.
DocPool ==
  <<ScannedDocument("r1", 1), ScannedDocument("u1", 1),
    ScannedDocument("r2", 1)>>

\* An input of n documents, starting at place `shift` of the pool.
InputDocuments(n, shift) ==
  [k \in 1..n |-> DocPool[((k + shift) % Len(DocPool)) + 1]]

\* A processDocument whose catch block returns the clone it was working on.
processDocumentReturnsClone(document, throws) ==
  IF throws THEN [document EXCEPT !.content.norm = TRUE]
  ELSE processDocument(document)

\* processDocument with its try/catch: the processing works on a clone
\* "{ ...document }"; when it throws, the error is logged and the original
\* document returned.
processDocumentCatching(document, throws) ==
  IF throws THEN document ELSE processDocument(document)

\* A loop that starts all the remaining documents at once.
BatchOfRest(documents, i) == (i + 1)..Len(documents)

\* "documents.slice(i, i + concurrencyLimit)": the places of the batch.
BatchOf(documents, i) ==
  {k \in 1..Len(documents) : i < k /\ k <= i + concurrencyLimit}

\* processDocuments is called: the loop is entered and
\* "batch.map(doc => this.processDocument(doc))" starts the first batch;
\* without documents the call returns [].
ApiProcessDocuments(n, shift, throws) ==
  /\ proc.pc = "idle"
  /\ LET documents == InputDocuments(n, shift) IN
     proc' = [IdleProc EXCEPT
       !.pc = IF n = 0 THEN "done" ELSE "running",
       !.documents = documents,
       !.throws = throws,
       !.started = BatchOf(documents, 0),
       !.batchResults = [k \in BatchOf(documents, 0) |-> documents[k]]]
  /\ UNCHANGED <<fs, clock, persisted, store, run, started, changes, txlog,
                 calls, answer, trig, rate>>

\* The promise of one processDocument call of the batch settles.
DocumentProcessed(k) ==
  /\ proc.pc = "running"
  /\ k \in proc.started \ proc.completed
  /\ proc' = [proc EXCEPT
       !.completed = @ \cup {k},
       !.batchResults[k] =
          processDocumentCatching(proc.documents[k], k \in proc.throws)]
  /\ UNCHANGED <<fs, clock, persisted, store, run, started, changes, txlog,
                 calls, answer, trig, rate>>

\* The results of the batch in the order of its places.
InBatchOrder(batchResults, i) ==
  [j \in 1..Cardinality(DOMAIN batchResults) |-> batchResults[i + j]]

\* Promise.all of the batch has resolved: "results.push(...batchResults)",
\* then the next batch is started, or the results are returned.
BatchResolved ==
  /\ proc.pc = "running"
  /\ proc.started \subseteq proc.completed
  /\ LET next == proc.i + concurrencyLimit
         more == next < Len(proc.documents)
         batch == BatchOf(proc.documents, next)
     IN proc' = [proc EXCEPT
          !.results = @ \o InBatchOrder(proc.batchResults, proc.i),
          !.i = next,
          !.pc = IF more THEN "running" ELSE "done",
          !.started = IF more THEN @ \cup batch ELSE @,
          !.batchResults = IF more
                           THEN [k \in batch |-> proc.documents[k]]
                           ELSE <<>>]
  /\ UNCHANGED <<fs, clock, persisted, store, run, started, changes, txlog,
                 calls, answer, trig, rate>>

NextProcess ==
  \/ /\ proc.pc = "idle"
     /\ \E n \in 0..MaxDocs, shift \in 0..2 :
          \E throws \in SUBSET (1..n) : ApiProcessDocuments(n, shift, throws)
  \/ \E k \in proc.started : DocumentProcessed(k)
  \/ BatchResolved

SpecProcess == Init /\ [][NextProcess]_vars

\* ------------------------------------------------- scanned document ids
\* Archive roots (researchPath, urlContentPath) and paths of files below a
\* root, as sequences of path segments.
ArchiveRoots == {<<"data">>, <<"data", "sub">>, <<"mnt">>}
RelativePaths == {<<"a.md">>, <<"sub", "a.md">>, <<"b.md">>}
Sources == {"research", "url-content"}

\* path.join(dir, entry.name), applied down the tree by getFilesRecursively:
\* the path of a file as the scan loops get it.
FilePath(dirPath, rel) == dirPath \o rel

\* path.relative(dirPath, filePath), for a file below dirPath.
RelativeTo(dirPath, filePath) ==
  SubSeq(filePath, Len(dirPath) + 1, Len(filePath))

\* The id and the path of the Document a scan builds for the file at `rel`
\* below the archive root: "id = this.generateDocumentId(filePath, source)",
\* "path: path.relative(dirPath, filePath)".
ScannedFile(dirPath, rel, source, v) ==
  LET filePath == FilePath(dirPath, rel) IN
  [id |-> generateDocumentId(filePath, source),
   path |-> RelativeTo(dirPath, filePath),
   source |-> source,
   v |-> v]

\* Two files are scanned (in one scan or in two, of one archive or of two).
ApiScanFiles(a, b) ==
  /\ answer = NoAnswer
  /\ answer' = [op |-> "scan",
                first |-> ScannedFile(a.root, a.rel, a.source, a.v),
                second |-> ScannedFile(b.root, b.rel, b.source, b.v)]
  /\ UNCHANGED <<fs, clock, persisted, store, run, started, changes, txlog,
                 calls, trig, proc, rate>>

ScanInputs ==
  [root : ArchiveRoots, rel : RelativePaths, source : Sources, v : Versions]

NextIds ==
  /\ answer = NoAnswer
  /\ \E a, b \in ScanInputs : ApiScanFiles(a, b)

SpecIds == Init /\ [][NextIds]_vars

\* ------------------------------------- the rate limiter of captureUrlContent
\* The hours that pass in one behaviour of SpecRateLimit, and the seconds of
\* each hour the model distinguishes.
MaxHours == 1
MaxSeconds == 4
\* checkRateLimit calls made in one behaviour.
MaxRequestsMade == 4

\* The configured maximum, process.env.MAX_REQUESTS_PER_DOMAIN_PER_HOUR (10
\* when it is not set).
maxRequests == 2

\* REQUEST_DELAY_MS = 2000 and the window "now - 3600000", in seconds.
RequestDelaySeconds == 2
HourSeconds == 3600

\* Math.max(...timestamps, 0).
RECURSIVE MostRecent(_)
MostRecent(timestamps) ==
  IF timestamps = <<>> THEN 0
  ELSE LET m == MostRecent(Tail(timestamps)) IN
       IF Head(timestamps) > m THEN Head(timestamps) ELSE m

\* checkRateLimit up to its await: the timestamps older than an hour are
\* dropped; the call throws when maxRequests remain; it waits when the most
\* recent request is less than the delay ago; otherwise it records now.
checkRateLimit(timestamps, now) ==
  LET kept == SelectSeq(timestamps, LAMBDA t : t > now - HourSeconds)
      mostRecentRequest == MostRecent(kept)
      timeSinceLastRequest == now - mostRecentRequest
  IN IF Len(kept) >= maxRequests
     THEN [outcome |-> "refused", timestamps |-> kept, wake |-> 0]
     ELSE IF mostRecentRequest > 0 /\ timeSinceLastRequest < RequestDelaySeconds
     THEN [outcome |-> "waiting", timestamps |-> kept,
           wake |-> now + (RequestDelaySeconds - timeSinceLastRequest)]
     ELSE [outcome |-> "recorded", timestamps |-> Append(kept, now),
           wake |-> 0]

\* The timestamps of a list that lie in the hour ending at t.
InWindow(timestamps, t) ==
  Len(SelectSeq(timestamps, LAMBDA x : x > t - HourSeconds /\ x <= t))

\* captureUrlContent.execute calls checkRateLimit(url) for a URL of this
\* domain (a tool call of the host, or processUrlsInBackground working
\* through the URLs of a report), whatever other calls are waiting.
ApiCheckRateLimit(c, domain) ==
  /\ rate.waiting[c].domain = ""
  /\ rate.made < MaxRequestsMade
  /\ LET before == rate.domainRequestTimestamps[domain]
         r == checkRateLimit(before, rate.now)
     IN rate' = [rate EXCEPT
          !.domainRequestTimestamps[domain] = r.timestamps,
          !.waiting[c] = IF r.outcome = "waiting"
                         THEN [domain |-> domain, wake |-> r.wake] ELSE @,
          !.made = @ + 1,
          !.last = [domain |-> domain, outcome |-> r.outcome,
                    inWindow |-> InWindow(before, rate.now),
                    kept |-> Len(r.timestamps)]]
  /\ UNCHANGED <<fs, clock, persisted, store, run, started, changes, txlog,
                 calls, answer, trig, proc>>

\* The delay of a waiting call is over: it records this request,
\* "domainRequestTimestamps[domain].push(Date.now())", and returns.
RateLimitResumes(c) ==
  /\ rate.waiting[c].domain # ""
  /\ rate.waiting[c].wake <= rate.now
  /\ LET domain == rate.waiting[c].domain
         before == rate.domainRequestTimestamps[domain]
     IN rate' = [rate EXCEPT
          !.domainRequestTimestamps[domain] = Append(before, rate.now),
          !.waiting[c] = [domain |-> "", wake |-> 0],
          !.last = [domain |-> domain, outcome |-> "recorded",
                    inWindow |-> InWindow(before, rate.now),
                    kept |-> Len(before) + 1]]
  /\ UNCHANGED <<fs, clock, persisted, store, run, started, changes, txlog,
                 calls, answer, trig, proc>>

\* Time passes, by a second or by an hour, up to the next timer that is due.
RateTimePasses(delta) ==
  /\ rate.now + delta <= MaxHours * HourSeconds + MaxSeconds
  /\ (rate.now + delta) % HourSeconds <= MaxSeconds
  /\ \A c \in Callers :
       rate.waiting[c].domain # "" => rate.waiting[c].wake >= rate.now + delta
  /\ rate' = [rate EXCEPT !.now = @ + delta]
  /\ UNCHANGED <<fs, clock, persisted, store, run, started, changes, txlog,
                 calls, answer, trig, proc>>

NextRateLimit ==
  \/ \E c \in Callers, domain \in Domains : ApiCheckRateLimit(c, domain)
  \/ \E c \in Callers : RateLimitResumes(c)
  \/ \E delta \in {1, HourSeconds} : RateTimePasses(delta)

SpecRateLimit == Init /\ [][NextRateLimit]_vars

\* ----------------------------------------------------------------- claims
\* A run that has been entered and has neither returned nor thrown.
InFlight(r) == run[r].pc \notin {"idle", "done", "failed"}

\* C1: when the citation-build step throws, then after runIndexing has failed
\* (its rollback done) the documents and citations in the store are exactly
\* those visible before the run started, and the persisted lastScanTime is
\* what it was before the run.
C1_FailedBuildLeavesStoreAsBeforeRun ==
  [][\A r \in Runs :
       (run[r].pc = "rollback" /\ run[r].failedIn = "build"
          /\ run'[r].pc = "failed")
       => /\ ~store'.open
          /\ store'.db = run[r].beforeDb
          /\ persisted' = run[r].beforePersisted]_vars

\* C2: lastScanTime is persisted only by a run whose commit has succeeded,
\* and when a run fails, at whatever stage, the persisted lastScanTime is the
\* one from before that run.
C2_StateSavedOnlyAfterCommit ==
  [][/\ (persisted' # persisted)
          => \E r \in Runs : run[r].pc = "save" /\ run[r].failedIn = ""
                               /\ persisted' = run[r].scanTime
     /\ \A r \in Runs :
          (run[r].pc # "failed" /\ run'[r].pc = "failed")
          => persisted' = run[r].beforePersisted]_vars

\* C3: at most one runIndexing is in flight at any time.
C3_RunsMutuallyExclusive ==
  Cardinality({r \in Runs : InFlight(r)}) <= 1

\* C4: a pass that commits after an earlier pass has committed and saved its
\* state, with no change to the archive at any time, leaves the document
\* count and the citation count as they were after the earlier pass.
C4_ReindexKeepsCounts ==
  \A r \in Runs :
    (run[r].pc = "save" /\ run[r].beforePersisted # 0 /\ changes = 0)
    => getStats(store.db) = getStats(run[r].beforeDb)

\* Whether scan returned a document for file f to run r.
Returned(r, f) ==
  generateDocumentId(f, SourceOf(f)) \in {d.id : d \in run[r].documents}

\* C5: once scan has returned over an archive that did not change meanwhile:
\* without force and with a lastScanTime, a file modified at or before it is
\* not returned and a file modified after it is; with force, or without a
\* lastScanTime, every file is returned.
C5_IncrementalScan ==
  \A r \in Runs :
    (run[r].pc = "process" /\ run[r].listedAt = changes)
    => \A f \in Files :
         fs[f].exists
         => /\ (~run[r].force /\ run[r].state # 0
                  /\ fs[f].mtime <= run[r].state) => ~Returned(r, f)
            /\ (~run[r].force /\ run[r].state # 0
                  /\ fs[f].mtime > run[r].state) => Returned(r, f)
            /\ (run[r].force \/ run[r].state = 0) => Returned(r, f)

\* A non-forced scan with a lastScanTime has returned: an older file A was
\* left out and a newer file B was returned.
C5_Witness ==
  \E r \in Runs :
    /\ run[r].pc = "process" /\ run[r].listedAt = changes
    /\ ~run[r].force /\ run[r].state # 0
    /\ \E a \in Files, b \in Files :
         /\ fs[a].exists /\ fs[a].mtime <= run[r].state /\ ~Returned(r, a)
         /\ fs[b].exists /\ fs[b].mtime > run[r].state /\ Returned(r, b)

\* C6: the scanTime a scan returns is not later than the moment any of its
\* files was examined.
C6_ScanTimeIsScanStart ==
  \A r \in Runs :
    (run[r].pc \in {"process", "begin"} /\ run[r].firstExamined # 0)
    => run[r].scanTime <= run[r].firstExamined

\* C8: one transaction spans the write and the citation build of a run: the
\* run's transaction calls are one begin, issued first, by runIndexing; none
\* is issued by buildFromArchives; nothing follows the commit or the
\* rollback; and the transaction is open throughout the two stages.
C8_OneTransactionPerRun ==
  /\ \A i \in 1..Len(txlog) :
       /\ txlog[i].by = "runIndexing"
       /\ (txlog[i].op = "begin") <=> (i = 1)
       /\ (txlog[i].op = "rollback" \/ (txlog[i].op = "commit" /\ txlog[i].ok))
            => i = Len(txlog)
  /\ \A r \in Runs :
       run[r].pc \in {"write", "build", "commit", "rollback"}
       => store.open /\ txlog # <<>> /\ txlog[1].ok

\* buildFromArchives has thrown inside a run's transaction, citations of the
\* pass already stored, and the run has rolled back.
C8_Witness ==
  \E r \in Runs :
    /\ run[r].pc = "failed" /\ run[r].failedIn = "build"
    /\ Len(txlog) = 2 /\ txlog[2].op = "rollback"

\* C7: beginTransaction on a handle with a transaction open raises an error
\* and leaves that transaction open with its pending writes.
C7_NestedBeginRefused ==
  (answer.op = "begin" /\ answer.before.open)
  => /\ ~answer.ok
     /\ store = answer.before

\* begin was called inside a transaction that had written something.
C7_Witness ==
  /\ answer.op = "begin"
  /\ answer.before.open
  /\ answer.before.db # answer.before.snap

\* The documents one hop from x over incoming and outgoing citation edges.
Neighbours(d, x) ==
  {c.targetId : c \in {e \in d.citations : e.sourceId = x /\ e.targetId # NoDoc}}
    \cup {c.sourceId : c \in {e \in d.citations : e.targetId = x}}

RECURSIVE WithinHops(_, _, _)
WithinHops(d, S, n) ==
  IF n = 0 THEN S
  ELSE WithinHops(d, S \cup UNION {Neighbours(d, x) : x \in S}, n - 1)

\* C9: findRelatedDocuments(id, depth) returns the documents reachable from
\* id within depth hops over incoming and outgoing citation edges, without
\* id itself.
C9_RelatedIsReachableWithinDepth ==
  (answer.op = "related")
  => answer.result
       = WithinHops(store.db, {answer.id}, answer.depth) \ {answer.id}

\* C10: getCitationsForDocument(d, 'citing') returns exactly the stored
\* citations whose targetId is d, and (d, 'cited') exactly those whose
\* sourceId is d.
C10_CitationsByDirection ==
  (answer.op = "citations")
  => LET wanted ==
           {c \in store.db.citations :
              IF answer.direction = "citing" THEN c.targetId = answer.id
              ELSE c.sourceId = answer.id}
     IN /\ {x.id : x \in answer.result} = {c.id : c \in wanted}
        /\ \A x \in answer.result :
             \E c \in wanted :
               /\ c.id = x.id /\ c.sourceId = x.sourceId
               /\ c.targetId = x.targetId /\ c.targetUrl = x.targetUrl
               /\ c.confidence = x.confidence

\* 'citing' was asked of a document that is cited by one document and cites
\* another.
C10_Witness ==
  /\ answer.op = "citations"
  /\ answer.direction = "citing"
  /\ answer.result # {}
  /\ \E c \in store.db.citations :
       c.sourceId = answer.id /\ c.targetId # answer.id

\* C11: a run that has committed, having listed the archive after a file
\* indexed by an earlier run was removed (no change to the archive since the
\* listing, no other run in flight), leaves no document of that file in
\* listDocuments(), from which every search draws its results.
C11_RemovedFileLeavesIndex ==
  \A r \in Runs, f \in Files :
    (/\ run[r].pc = "save"
     /\ run[r].listedAt = changes
     /\ \A q \in Runs \ {r} : ~InFlight(q)
     /\ ~fs[f].exists
     /\ generateDocumentId(f, SourceOf(f))
          \in {x.id : x \in listDocuments(run[r].beforeDb)})
    => generateDocumentId(f, SourceOf(f))
         \notin {x.id : x \in listDocuments(Committed(store))}

\* The place of document id in a result list (0: not in it).
PlaceOf(result, id) ==
  IF \E i \in 1..Len(result) : result[i].id = id
  THEN CHOOSE i \in 1..Len(result) : result[i].id = id
  ELSE 0

\* C12: when the query is one term, one document of the corpus has the term
\* in its title and another has it in its body content only, the search
\* lists the first strictly above the second.
C12_TitleMatchRanksAboveBodyMatch ==
  (answer.op = "search" /\ Len(answer.query) = 1 /\ answer.limit >= 2)
  => \A i \in 1..2, j \in 1..2 :
       LET X == answer.corpus[i]
           Y == answer.corpus[j]
           has(text) == calculateFieldScore(text, answer.query) > 0
       IN (/\ has(X.title)
           /\ ~has(Y.title) /\ has(Y.content) /\ ~has(Y.query))
          => /\ PlaceOf(answer.result, X.id) > 0
             /\ PlaceOf(answer.result, Y.id) > 0
             /\ PlaceOf(answer.result, X.id) < PlaceOf(answer.result, Y.id)

\* The ids of the documents the SearchAPI's connection finds in the store.
StoredIds == {x.id : x \in listDocuments(Committed(store))}

\* C13: findRelated and generateCitationReport called with an id that is not
\* in the store raise an error that names the missing document; they return
\* no result.
C13_UnknownIdIsAnError ==
  (answer.op \in {"findRelated", "report"} /\ answer.id \notin StoredIds)
  => /\ ~answer.out.ok
     /\ answer.out.error.notFound = answer.id

\* findRelated was asked about an id missing from a store that holds other
\* documents and citations.
C13_Witness ==
  /\ answer.op = "findRelated"
  /\ answer.id \notin StoredIds
  /\ StoredIds # {}
  /\ Committed(store).citations # {}

\* C14: the report of a stored document d gives outgoingCount = the number of
\* stored citations with sourceId d, incomingCount = the number with targetId
\* d, and averageConfidence = the mean confidence over those edges, 0 when
\* there are none.
C14_ReportCounts ==
  (answer.op = "report" /\ answer.id \in StoredIds)
  => LET cits == Committed(store).citations
         outgoing == {c \in cits : c.sourceId = answer.id}
         incoming == {c \in cits : c.targetId = answer.id}
         n == Cardinality(outgoing) + Cardinality(incoming)
         sum == FracAdd(SumConfidence(outgoing), SumConfidence(incoming))
         m == answer.out.metrics
     IN /\ answer.out.ok
        /\ m.outgoingCount = Cardinality(outgoing)
        /\ m.incomingCount = Cardinality(incoming)
        /\ FracEq(m.averageConfidence,
                  IF n > 0 THEN <<sum[1], sum[2] * n>> ELSE <<0, 1>>)

\* A URL with its letter case, its http or https scheme and its trailing
\* slash taken away.
Stripped(u) ==
  LET scheme == IF u.scheme = "HTTP" THEN "http" ELSE u.scheme
  IN [scheme |-> IF scheme \in {"http", "https"} THEN "" ELSE scheme,
      body |-> u.body]

\* C15: matchUrlReferences gives a citation the id of a url-content document
\* whose recorded originalUrl equals the citation's targetUrl up to scheme,
\* trailing slash and letter case whenever there is one, and no targetId
\* when there is none.
C15_UrlMatchIgnoresSchemeSlashCase ==
  (answer.op = "match")
  => \A i \in 1..Len(answer.result) :
       LET c == answer.result[i]
           matching == {x \in answer.urlContentDocuments :
                          /\ x.originalUrl # NoUrl
                          /\ Stripped(x.originalUrl) = Stripped(c.targetUrl)}
       IN IF matching = {} THEN c.targetId = NoDoc
          ELSE c.targetId \in {x.id : x \in matching}

\* The places of the markdown links in a text.
LinkPlaces(tokens) == {k \in 1..Len(tokens) : tokens[k].kind = "link"}

C17_ImplicitConfidenceBelowOne ==
  (answer.op = "detect")
  => \A i \in 1..Len(answer.result) :
       LET c == answer.result[i].confidence
       IN 10 * c[1] > 7 * c[2] /\ c[1] < c[2]

\* C18: every stored citation's sourceId is the id of a stored document,
\* whatever calls were made on the store, inside or outside a transaction.
C18_CitationSourceExists ==
  /\ \A c \in store.db.citations :
       c.sourceId \in {x.id : x \in store.db.documents}
  /\ \A c \in Committed(store).citations :
       c.sourceId \in {x.id : x \in Committed(store).documents}

\* deleteDocument was just refused for the source of a stored citation.
C18_Witness ==
  /\ answer.op = "deleteDocument"
  /\ ~answer.ok
  /\ store.db.citations # {}

\* C19: a write step of the orchestrator for a document with id i leaves one
\* stored document with id i, its stored fields those of the document
\* written, and writing the same document once more changes nothing.
C19_UpsertReplaces ==
  [][\A r \in Runs :
       (run[r].pc = "write" /\ run'[r].pending # run[r].pending)
       => \A doc \in run[r].pending \ run'[r].pending :
            /\ getDocument(store'.db, doc.id) = {doc}
            /\ Cardinality({x \in store'.db.documents : x.id = doc.id}) = 1
            /\ Cardinality({x \in store'.db.document_content :
                              x.id = doc.id}) = 1
            /\ Upsert(store'.db, doc) = store'.db]_vars

\* Inside a run's transaction a stored document has been replaced by a
\* version with another content.
C19_Witness ==
  \E r \in Runs :
    /\ run[r].pc \in {"write", "build"}
    /\ store.open
    /\ \E x \in listDocuments(store.db), y \in listDocuments(store.snap) :
         x.id = y.id /\ x.content # y.content

\* C20: a burst of file-change events, each less than 5 seconds after the
\* one before, triggers one indexing run, and only once 5 seconds have passed
\* without an event; at most one debounce timer is pending at any time.
C20_DebounceCoalescesBurst ==
  /\ Cardinality(trig.timers) <= 1
  /\ trig.burstRuns <= 1
  /\ (trig.burstRuns >= 1)
       => trig.now >= trig.lastEvent + DebounceSeconds
  /\ (/\ trig.lastEvent # -1
      /\ trig.now >= trig.lastEvent + DebounceSeconds
      /\ ~TimerDue)
       => trig.burstRuns = 1

\* One burst of three events or more has ended with its single run.
C20_Witness ==
  /\ trig.events >= 3
  /\ trig.runsTriggered = 1
  /\ trig.burstRuns = 1
  /\ trig.timers = {}

\* C21: once stopTriggers has returned, no cron or watcher callback starts
\* an indexing run, not even one whose debounce timer was pending at the stop.
C21_NoRunAfterStop == ~trig.startedAfterStop

\* C22: a setupTriggers call with a malformed cron expression reports an
\* error to its caller and registers no job entry.
C22_MalformedCronRejected ==
  (trig.lastCall.op = "setupTriggers" /\ trig.lastCall.schedule = "malformed")
    => (trig.lastCall.threw /\ trig.jobs = <<>>)

\* C24: when a run fails, the failure is reported to the run's invoker
\* (thrown to a manual caller, logged by the cron or watch handler), no run is
\* started in its place, and the registered jobs, watchers and timers stay as
\* they are.
C24_FailedRunAbortsOnlyItself ==
  [][(trig'.ended = trig.ended + 1 /\ ~trig'.lastReport.ok)
       => /\ trig'.runsTriggered = trig.runsTriggered
          /\ trig'.jobs = trig.jobs
          /\ trig'.watchers = trig.watchers
          /\ trig'.timers = trig.timers
          /\ trig.inflight[trig'.lastReport.by] > 0
          /\ trig'.inflight =
               [trig.inflight EXCEPT ![trig'.lastReport.by] = @ - 1]
          /\ trig'.lastReport.how =
               IF trig'.lastReport.by = "manual" THEN "thrown" ELSE "logged"]_vars

\* A run started by the cron job has failed and was logged, the job is still
\* registered, and a trigger has started another run since.
C24_Witness ==
  /\ trig.failed
  /\ trig.lastReport = [by |-> "cron", ok |-> FALSE, how |-> "logged"]
  /\ trig.jobs = <<"job">>
  /\ trig.startedAfterFailure
  /\ trig.inflight["cron"] > 0

\* C23: processDocuments returns one output per input document, in input
\* order; a document whose processing threw is returned equal to the input,
\* the others processed.
C23_BatchIsolation ==
  proc.pc = "done" =>
    /\ Len(proc.results) = Len(proc.documents)
    /\ \A k \in 1..Len(proc.documents) :
         proc.results[k] =
           IF k \in proc.throws THEN proc.documents[k]
           ELSE processDocument(proc.documents[k])

\* A call over two batches has returned; a document of each batch threw.
C23_Witness ==
  /\ proc.pc = "done"
  /\ Len(proc.documents) > concurrencyLimit
  /\ 2 \in proc.throws
  /\ Len(proc.documents) \in proc.throws
  /\ 1 \notin proc.throws

\* C28: at most 5 processDocument calls are in flight, and a document of a
\* later batch is started only when every document of the batches before it
\* has completed.
C28_BoundedWindow ==
  /\ Cardinality(proc.started \ proc.completed) <= 5
  /\ \A j \in proc.started, k \in 1..Len(proc.documents) :
       ((k - 1) \div 5 < (j - 1) \div 5) => k \in proc.completed

\* A document of the second batch is in flight.
C28_Witness ==
  /\ proc.pc = "running"
  /\ (concurrencyLimit + 1) \in proc.started \ proc.completed

\* C25: what a search, findRelated or citation report reads while a run is
\* in flight is the state committed before the run or the state the run
\* commits: during the flight of a run the readers' view changes only at that
\* run's commit.
C25_ReaderIsolation ==
  [][\A r \in Runs :
       (InFlight(r) /\ run'[r].pc # "idle" /\ ReaderView' # ReaderView)
         => (run[r].pc = "commit" /\ run'[r].pc = "save")]_vars

\* C27: runIndexing issues rollbackTransaction exactly when it fails with its
\* own transaction open; a failure in scan or in beginTransaction issues none,
\* a rollback is issued only by a failing run, and none follows a successful
\* commit.
C27_RollbackOnlyInsideTransaction ==
  [][LET rolled == /\ Len(txlog') = Len(txlog) + 1
                   /\ txlog'[Len(txlog')].op = "rollback"
     IN
     /\ \A r \in Runs :
          (run[r].pc # "failed" /\ run'[r].pc = "failed")
            => /\ rolled <=> store.open
               /\ rolled <=> run'[r].failedIn \in
                               {"write", "delete", "build", "commit"}
               /\ rolled => /\ txlog[1] = [by |-> "runIndexing",
                                           op |-> "begin", ok |-> TRUE]
                            /\ \A i \in 1..Len(txlog) :
                                 ~(txlog[i].op = "commit" /\ txlog[i].ok)
     /\ rolled => \E r \in Runs : run[r].pc # "failed" /\ run'[r].pc = "failed"
    ]_vars

\* One run has failed in beginTransaction, without a rollback, and another in
\* its COMMIT, with one.
C27_Witness ==
  \E r, q \in Runs :
    /\ run[r].pc = "failed" /\ run[r].failedIn = "begin"
    /\ run[q].pc = "failed" /\ run[q].failedIn = "commit"
    /\ txlog[Len(txlog)] = [by |-> "runIndexing", op |-> "rollback", ok |-> TRUE]

\* C26: two scanned files get the same id exactly when they have the same
\* source and the same path relative to their archive root, whatever the
\* root, the content and the modification time.
C26_IdFromSourceAndRelativePath ==
  answer.op = "scan" =>
    ((answer.first.id = answer.second.id)
       <=> (/\ answer.first.source = answer.second.source
            /\ answer.first.path = answer.second.path))

\* C29: search returns at most `limit` results (50 when no limit is given),
\* each with its score, all scores above 0 and in non-increasing order, and a
\* document scoring above 0 is left out only when `limit` results scoring at
\* least as much are returned.
C29_SearchRanksAndLimits ==
  answer.op = "search" =>
    LET res == answer.result
        ids == {res[i].id : i \in 1..Len(res)}
    IN
    /\ Len(res) <= answer.limit
    /\ Cardinality(ids) = Len(res)
    /\ \A i \in 1..Len(res) :
         /\ res[i].score2 > 0
         /\ \E k \in 1..Len(answer.corpus) :
              /\ answer.corpus[k].id = res[i].id
              /\ res[i].score2 = Score2(answer.corpus[k], answer.query)
    /\ \A i, j \in 1..Len(res) : i < j => res[i].score2 >= res[j].score2
    /\ \A k \in 1..Len(answer.corpus) :
         LET s2 == Score2(answer.corpus[k], answer.query) IN
         (s2 > 0 /\ answer.corpus[k].id \notin ids)
           => /\ Len(res) = answer.limit
              /\ \A i \in 1..Len(res) : res[i].score2 >= s2

\* A search with limit 1 over two matching documents, the higher scoring one
\* listed second in the store: it alone is returned.
C29_Witness ==
  /\ answer.op = "search"
  /\ answer.limit = 1
  /\ Score2(answer.corpus[1], answer.query) > 0
  /\ Score2(answer.corpus[2], answer.query)
       > Score2(answer.corpus[1], answer.query)
  /\ Len(answer.result) = 1
  /\ answer.result[1].id = answer.corpus[2].id

\* C30: generateCitationVisualization called with a list holding an id that
\* is not in the store raises a not-found error; it does not return a graph.
C30_VisualizationRejectsUnknownId ==
  (/\ answer.op = "visualize"
   /\ \E i \in 1..Len(answer.ids) : answer.ids[i] \notin StoredIds)
  => ~answer.out.ok

\* C31: buildFromArchives run standalone manages its own transaction.  With
\* no transaction open it begins one and either commits it, every citation of
\* the pass stored, or, an addCitation having thrown, rolls it back, the
\* tables as they were before the call.  With a transaction already open its
\* begin fails and it issues nothing else: the enclosing transaction and its
\* uncommitted work are left as they were.
C31_StandaloneBuildOwnsItsTransaction ==
  answer.op = "build" =>
    IF answer.before.open
    THEN /\ ~answer.ok
         /\ answer.calls = <<[op |-> "begin", ok |-> FALSE]>>
         /\ store = answer.before
    ELSE IF answer.ok
    THEN /\ answer.calls = <<[op |-> "begin", ok |-> TRUE],
                             [op |-> "commit", ok |-> TRUE]>>
         /\ ~store.open
         /\ answer.before.db.citations \subseteq store.db.citations
         /\ Cardinality(store.db.citations)
              = Cardinality(answer.before.db.citations)
                  + Len(answer.citations)
         /\ store.db.documents = answer.before.db.documents
    ELSE /\ answer.calls = <<[op |-> "begin", ok |-> TRUE],
                             [op |-> "rollback", ok |-> TRUE]>>
         /\ ~store.open
         /\ store.db = answer.before.db

\* A standalone build was refused inside an open transaction that holds
\* uncommitted documents with citations to store.
C31_Witness ==
  /\ answer.op = "build"
  /\ answer.before.open
  /\ answer.before.db # answer.before.snap
  /\ CitationsToStore(answer.before.db) # <<>>
  /\ store.open

\* C32: the persisted lastScanTime never moves backwards: every step that
\* writes it stores a value at least as large as the value persisted before.
C32_LastScanTimeNeverDecreases == [][persisted' >= persisted]_vars

\* C33: stopTriggers never fails.  After a stopTriggers call the job list
\* and the watcher list are empty and the debounce timer is cleared, whatever
\* setupTriggers calls came before; and the stopTriggers that opens a
\* setupTriggers call does not make that call throw.
C33_StopTriggersNeverFails ==
  /\ trig.lastCall.op = "stopTriggers" =>
       /\ trig.jobs = <<>>
       /\ trig.watchers = {}
       /\ trig.watchDebounceTimer = 0
  /\ trig.lastCall.op = "setupTriggers" => ~trig.lastCall.threw

\* C34: triggers do not stack.  After a setupTriggers call only what that
\* call configured is active: at most one job entry, a live job only when the
\* call named a schedule, watchers on no directory but those the call asked
\* to watch; and one burst of file events has started at most one run.
C34_TriggersDoNotStack ==
  trig.lastCall.op = "setupTriggers" =>
    /\ Len(trig.jobs) <= 1
    /\ (\E i \in 1..Len(trig.jobs) : trig.jobs[i] = "job")
         => trig.lastCall.schedule = "cron"
    /\ trig.watchers \subseteq trig.lastCall.watched
    /\ trig.burstRuns <= 1

\* The ids of documents are the ids of document_content, no id has two rows
\* in either table, and listDocuments and getDocument yield each stored
\* document exactly once.
TablesInParity(d) ==
  LET ids == {r.id : r \in d.documents} IN
  /\ {c.id : c \in d.document_content} = ids
  /\ Cardinality(d.documents) = Cardinality(ids)
  /\ Cardinality(d.document_content) = Cardinality(ids)
  /\ Cardinality(listDocuments(d)) = Cardinality(ids)
  /\ \A id \in ids : Cardinality(getDocument(d, id)) = 1

\* C35: the metadata table and the full-text table stay in parity, in the
\* tables as the connection sees them and in the committed tables alike,
\* after any addDocument, updateDocument and deleteDocument calls, failed
\* ones and ones inside a transaction that commits or rolls back included.
C35_TablesInParity ==
  TablesInParity(store.db) /\ TablesInParity(Committed(store))

\* An addDocument of an id already stored has just failed inside an open
\* transaction, the stored document holding content the call did not carry.
C35_Witness ==
  /\ answer.op = "addDocument"
  /\ ~answer.ok
  /\ store.open
  /\ \E c \in store.db.document_content : c.content.v = 2

\* C36: every edge of a citation visualization is a stored citation from
\* its start to its end, both ends of every edge are among the nodes
\* returned, and every stored citation that a listed document makes to
\* another document is an edge.
C36_VisualizationEdgesAreCitations ==
  answer.op = "visualize" =>
    LET d == Committed(store)
        listed == {answer.ids[i] : i \in 1..Len(answer.ids)}
        nodeIds == {n.id : n \in answer.out.nodes}
    IN /\ \A e \in answer.out.edges :
            /\ \E c \in d.citations :
                  c.sourceId = e.from /\ c.targetId = e.to
            /\ e.from \in nodeIds
            /\ e.to \in nodeIds
       /\ \A c \in d.citations :
            (c.sourceId \in listed /\ c.targetId \notin {NoDoc, c.sourceId})
              => \E e \in answer.out.edges :
                    e.from = c.sourceId /\ e.to = c.targetId

\* The citation rows a build has added, each with the context of its
\* full-text row.
RowsAdded ==
  {[sourceId |-> r.sourceId, targetUrl |-> r.targetUrl,
    targetId |-> r.targetId, confidence |-> r.confidence, id |-> r.id,
    context |-> c.context] :
     <<r, c>> \in {p \in (store.db.citations \ answer.before.db.citations)
                           \X store.db.citation_content : p[1].id = p[2].id}}

\* The url-content documents whose recorded original URL is url, scheme,
\* trailing slash and letter case aside.
ResolvedIds(d, url) ==
  {x.id : x \in {y \in listDocuments(d) :
                   /\ y.source = "url-content"
                   /\ normalizeUrl(y.originalUrl) = normalizeUrl(url)}}

\* C37: one successful buildFromArchives pass stores, for every research
\* document, two rows per markdown link, both with the document as source,
\* the link's URL and confidence 1.0, one without a target document and one
\* with the url-content document the URL resolves to (none when it resolves
\* to none), and besides these one row per implicit citation; it stores no
\* row for a document of another source.
C37_TwoRowsPerLink ==
  (answer.op = "build" /\ answer.ok) =>
    LET d == answer.before.db
        all == listDocuments(d)
    IN \A doc \in all :
         LET links == MarkdownLinks(Text(doc.content))
             rows == {r \in RowsAdded : r.sourceId = doc.id}
         IN IF doc.source # "research" THEN rows = {}
            ELSE
              /\ Cardinality(rows)
                   = 2 * Len(links) + Len(detectImplicitCitations(doc, all))
              /\ \A i \in 1..Len(links) :
                   LET ofLink == {r \in rows : r.context = <<"link", i>>} IN
                   /\ Cardinality(ofLink) = 2
                   /\ \A r \in ofLink :
                        r.targetUrl = links[i] /\ r.confidence = One
                   /\ \E r1 \in ofLink, r2 \in ofLink :
                        /\ r1.id # r2.id
                        /\ r1.targetId = NoDoc
                        /\ IF ResolvedIds(d, links[i]) = {}
                           THEN r2.targetId = NoDoc
                           ELSE r2.targetId \in ResolvedIds(d, links[i])

\* A pass has stored the rows of a research report with two links, one of
\* them resolved to a captured page, and an implicit citation, a captured
\* page being stored as well.
C37_Witness ==
  /\ answer.op = "build"
  /\ answer.ok
  /\ \E doc \in listDocuments(answer.before.db) :
       /\ doc.source = "research"
       /\ Len(MarkdownLinks(Text(doc.content))) = 2
       /\ detectImplicitCitations(doc, listDocuments(answer.before.db)) # <<>>
       /\ \E r \in RowsAdded :
            r.sourceId = doc.id /\ r.context[1] = "link" /\ r.targetId # NoDoc
  /\ \E doc \in listDocuments(answer.before.db) : doc.source = "url-content"

\* C38: the per-domain rate limit holds under concurrency.  No hour holds
\* more than maxRequests recorded timestamps of one domain; a call refused
\* with the rate-limit error found the maximum reached and recorded nothing;
\* and a call that recorded its request did so with the maximum not yet
\* reached.
C38_RateLimitHolds ==
  /\ \A d \in Domains :
       \A i \in 1..Len(rate.domainRequestTimestamps[d]) :
         InWindow(rate.domainRequestTimestamps[d],
                  rate.domainRequestTimestamps[d][i]) <= maxRequests
  /\ rate.last.outcome = "refused" =>
       /\ rate.last.inWindow >= maxRequests
       /\ Len(rate.domainRequestTimestamps[rate.last.domain]) = rate.last.kept
  /\ rate.last.outcome = "recorded" => rate.last.inWindow < maxRequests

====
